---- MODULE Spec2Model ----
(***************************************************************************)
(* Fetch-Cache-Reconcile engine of SpotifyPlaylistUpdater.                  *)
(*                                                                         *)
(* Spec        the script helpers (spotifyhelpers.py, config.py): gettracks *)
(*             called by concurrent threads, the disk cache, the per-run    *)
(*             record processed_track_sets and track_retrieval_lock.        *)
(* SpecClient  SpotifyPlaylistUpdater (spotify_client.py): threads that     *)
(*             share one client call get_user_playlists and                 *)
(*             get_playlist_tracks, with the client's in-memory caches.     *)
(* SpecReconcile  one thread calls find_missing_and_extra_tracks for an     *)
(*             artist string of one or two aliases: get_playlist_tracks,    *)
(*             get_artist_all_tracks(_multiple), the comparison and         *)
(*             find_non_artist_tracks(_multiple).                           *)
(* SpecMatch   track_utils.py: two remote tracks are made into track dicts  *)
(*             with clean_name and format_duration and compared with        *)
(*             is_track_match.                                              *)
(* SpecNormalize  track_utils.py: clean_name is called with a track name.   *)
(* SpecMutate  one thread calls add_tracks_to_playlist,                     *)
(*             remove_tracks_from_playlist or remove_track_from_playlist    *)
(*             of a client whose playlists are cached.                      *)
(* SpecInvalidate  Spec with calls of config.invalidate_cache between the   *)
(*             calls of gettracks.                                          *)
(* SpecExpiry  SpecClient in a process that lives longer than 24 hours.     *)
(* SpecReconcileWarm  SpecReconcile on a client whose caches can hold       *)
(*             entries from earlier calls.                                  *)
(* SpecKeys    Spec with threads that call gettracks for different         *)
(*             playlist ids.                                                *)
(* SpecLive    Spec with two calling threads, fair scheduling and remote    *)
(*             calls that all come back.                                    *)
(* SpecReset   Spec with calls of config.reset_processed_tracking by the    *)
(*             main thread.                                                 *)
(* SpecResolve the artist searches of get_artist_all_tracks and             *)
(*             find_non_artist_tracks(_multiple) for each alias of an       *)
(*             artist string.                                               *)
(* SpecFind    find_playlist_by_name and the playlist lookup of the add     *)
(*             and remove methods, for one name and one list of playlists.  *)
(***************************************************************************)
EXTENDS Integers, Sequences, FiniteSets, TLC

(* ----------------------------- bounds ---------------------------------- *)

\* number of threads that call gettracks
NumCallers == 2
\* largest number of items of the remote playlist
MaxTotal == 5
\* largest number of remote items that are local files or null tracks
MaxSkipped == 1
\* page size of a List call (chunk_size, 100 and 50 in the source, scaled down)
chunk_size == 2
\* largest number of playlists of the remote user
MaxPlaylists == 3
\* largest number of albums of the remote catalog
MaxAlbums == 4
\* albums and tracks per batch request (batch_size, 20 and 50 in the source,
\* scaled down)
batch_size == 2
\* the durations of the tracks that are compared lie at most this many
\* seconds from one minute
MaxSpread == 6
\* largest number of characters of the track name clean_name is called with
MaxNameLen == 6
\* largest number of tracks handed to add_tracks_to_playlist and
\* remove_tracks_from_playlist, and number of different track URIs
MaxUris == 3
\* URIs per add or remove request (100 in the source, scaled down)
mutate_batch_size == 2

\* largest number of characters of the artist string
MaxArtistLen == 4
\* largest number of artists a search returns
MaxItems == 2

(* ------------------------ program constants ---------------------------- *)

\* size of the thread pool of gettracks
max_workers == 10
\* size of the thread pools of get_user_playlists and get_playlist_tracks
client_max_workers == 3
\* size of the thread pool of the album batches of get_artist_all_tracks
album_max_workers == 3
\* size of the thread pool of the track batches of find_non_artist_tracks
track_max_workers == 5
\* size of the thread pool of the track batches of
\* find_non_artist_tracks_multiple
track_multiple_max_workers == 2
\* tolerance of is_duration_within_range, in seconds
range_seconds == 5

\* the playlist ids a caller can pass to gettracks
PlaylistIds == {"p1", "p2"}

\* playlist names, each a sequence of characters
PlaylistNames == { << "a", "b" >>, << "A", "B" >>, << "a" >>, << "a", "b", "b" >> }

VARIABLES
    \* ---- the remote service
    remoteTotal,          \* "total" of the remote playlist
    remoteSkipped,        \* positions whose item has no track or no track id
    remotePlaylists,      \* names of the remote user's playlists, in list order
    playlistIds,          \* the playlist ids the callers of this run pass
    playlistNames,        \* the playlist names the callers of this run pass
    \* ---- config.py
    non_interactive,      \* args.non_interactive
    cache,                \* diskcache.Cache, one entry per key
    processed_track_sets, \* per-run record of fetched playlists
    invalidated,          \* keys invalidate_cache was called with, not stored since
    track_retrieval_lock, \* holder of the lock, or NoThread
    \* ---- SpotifyPlaylistUpdater
    playlists_cache,      \* self._playlists_cache
    playlist_tracks_cache,\* self._playlist_tracks_cache, one entry per name
    expired,              \* keys of the two caches whose entry is older than 24 hours
    op,                   \* the method of the client the thread called
    playlist_name,        \* argument playlist_name
    playlists,            \* playlists, the playlist indices collected so far
    \* ---- find_missing_and_extra_tracks
    remoteAlbums,         \* number of albums of the remote catalog
    remoteArtists,        \* names of the artists the remote search finds
    remoteNoDetail,       \* positions whose track the remote has no detail of
    artist_names,         \* artist_names, the aliases of the artist string
    artist_index,         \* index of the alias the loop over artist_names is at
    artist_tracks,        \* artist_tracks, the discography of all aliases
    target_artist_ids,    \* target_artist_ids
    lookups,              \* kinds of remote request the comparison has made
    failed_lookups,       \* list indices whose single-track lookup failed
    discography,          \* every track get_artist_all_tracks has returned
    playlist_tracks,      \* playlist_tracks, as get_playlist_tracks returned it
    all_album_ids,        \* all_album_ids, the albums listed so far
    all_tracks,           \* all_tracks, the album tracks collected so far
    unique_missing,       \* unique_missing
    non_artist_tracks,    \* non_artist_tracks, collected so far
    \* ---- track_utils
    raw_tracks,           \* the tracks of the remote responses that are compared
    track_dicts,          \* the track dicts built of them
    matched,              \* what is_track_match returned for each pair
    track_name,           \* the argument clean_name is called with
    cleaned,              \* what the call of clean_name ended with
    \* ---- add_tracks_to_playlist, remove_tracks_from_playlist
    remote_items,         \* track URIs of the remote playlist, in order
    track_uris,           \* track_uris, the URIs of the argument tracks
    batch_start,          \* i, the index the loop over the batches is at
    sent,                 \* the batches handed to the remote so far
    mutation_ok,          \* the boolean the call returned
    \* ---- one call per thread
    pc,                   \* position of the thread in gettracks
    playlist_id,          \* argument playlist_id
    refresh,              \* argument refresh
    total,                \* result["total"] of the first page, NoTotal before it
    tracklist,            \* tracklist, the positions collected so far
    futures,              \* state of the page task of each offset
    collected,            \* offsets whose future as_completed has yielded
    result,               \* what the call returned
    \* ---- history
    listCalls,            \* offsets of the List calls the call issued
    fetchCount,           \* number of remote fetches begun
    entryAtCall,          \* cache entry of the key when the call began
    entryAtFetch,         \* cache entry of the key when the call took the lock
    raised,               \* a List call of this call raised an exception
    afterReturn,          \* the call began after some call had returned
    afterInvalidate,      \* the call began with its key in invalidated
    clean,                \* every remote response so far carried its items
    \* ---- the artist search
    search_items,         \* names of the artists a search returns, in order
    artist_name,          \* argument artist_name of find_missing_and_extra_tracks
    aliases,              \* artist_names, the stripped parts of artist_name
    artist_id,            \* artist found by get_artist_all_tracks, per alias
    target_artist_id,     \* artist found for the extra tracks, per alias
    \* ---- the playlist of a name
    query_name,           \* argument playlist_name of the lookups
    matched_playlist,     \* what find_playlist_by_name returned, if called
    mutation_playlist_id, \* playlist_id of an add or remove call, if called
    \* ---- the reset of the run
    playlist_lock         \* thread that holds config.playlist_lock, or NoThread

vars == << expired, invalidated, afterInvalidate, remoteTotal, remoteSkipped, remotePlaylists, playlistIds,
           playlistNames, non_interactive, cache, processed_track_sets,
           track_retrieval_lock, playlists_cache, playlist_tracks_cache, op,
           playlist_name, playlists, pc, playlist_id, refresh, total,
           tracklist, futures, collected, result, listCalls, fetchCount,
           entryAtCall, entryAtFetch, raised, afterReturn, clean,
           remoteAlbums, playlist_tracks, all_album_ids, all_tracks,
           unique_missing, non_artist_tracks, remoteArtists, remoteNoDetail,
           artist_names, artist_index, artist_tracks, target_artist_ids,
           lookups, failed_lookups, discography,
           raw_tracks, track_dicts, matched, track_name,
           cleaned, remote_items, track_uris, batch_start, sent,
           mutation_ok, search_items, artist_name, aliases, artist_id,
           target_artist_id, query_name, matched_playlist,
           mutation_playlist_id, playlist_lock >>

(* ----------------------------- values ---------------------------------- *)

Callers == 1..NumCallers
NoThread == 0
Positions == 0..(MaxTotal - 1)

\* a cache slot: an entry with its value, or no entry
NoEntry == [present |-> FALSE, val |-> << >>]
Entry(v) == [present |-> TRUE, val |-> v]

\* what a call hands to its caller: a collection, or the exception it raised
Returned(v) == [error |-> FALSE, val |-> v]
Raised == [error |-> TRUE, val |-> << >>]

\* Python truthiness of cache.get(key): None and the empty list are falsy
Truthy(e) == e.present /\ e.val # << >>

Min(a, b) == IF a < b THEN a ELSE b

\* ceil(total / chunk_size)
num_chunks(n) == (n + chunk_size - 1) \div chunk_size

(* ----------------------------- remote ---------------------------------- *)

\* the items of positions lo..hi-1 that have a track with an id, in order;
\* position = offset + i is what process_track records for each of them
RECURSIVE PageItems(_, _)
PageItems(lo, hi) ==
    IF lo >= hi THEN << >>
    ELSE (IF lo \in remoteSkipped THEN << >> ELSE << lo >>) \o PageItems(lo + 1, hi)

\* the tracks one List call at offset delivers
process_tracks_chunk(offset) ==
    PageItems(offset, Min(offset + chunk_size, remoteTotal))

\* outcomes of one List call: the page, a response without "items", an exception
Outcomes == {"ok", "noitems", "raise"}

(* ------------------------------ sort ----------------------------------- *)

RECURSIVE Insert(_, _)
Insert(x, s) ==
    IF s = << >> THEN << x >>
    ELSE IF x < Head(s) THEN << x >> \o s
    ELSE << Head(s) >> \o Insert(x, Tail(s))

RECURSIVE SortByPosition(_)
SortByPosition(s) ==
    IF s = << >> THEN << >> ELSE Insert(Head(s), SortByPosition(Tail(s)))

(* ----------------------------- gettracks ------------------------------- *)

\* range(chunk_size, total - 1, chunk_size), an off-by-one end of the range
offsets_short(n) ==
    { o \in Positions : o >= chunk_size /\ o < n - 1 /\ o % chunk_size = 0 }

\* range(chunk_size, total, chunk_size)
offsets(n) == { o \in Positions : o >= chunk_size /\ o < n /\ o % chunk_size = 0 }

\* the offsets a List call can carry
PageOffsets == { o \in Positions : o % chunk_size = 0 }

NoTotal == -1
NoFutures == [o \in {} |-> "pending"]
NoCalls == [o \in PageOffsets |-> 0]

Running(t) == { o \in DOMAIN futures[t] : futures[t][o] = "running" }
Finished(t) == { o \in DOMAIN futures[t] : futures[t][o] \in Outcomes }

\* no track is compared: the track dicts built and the pairs compared are
\* functions of the tracks and pairs done so far
NoTracks == << >>
\* no call of add_tracks_to_playlist or remove_tracks_from_playlist has begun
InitMutateVars ==
    /\ remote_items = << >>
    /\ track_uris = << >>
    /\ batch_start = 0
    /\ sent = << >>
    /\ mutation_ok = "none"

\* no artist has been searched
InitSearchVars ==
    /\ search_items = << >>
    /\ artist_name = << >>
    /\ aliases = << >>
    /\ artist_id = << >>
    /\ target_artist_id = << >>

\* no playlist has been looked up
InitFindVars ==
    /\ query_name = << >>
    /\ matched_playlist = << >>
    /\ mutation_playlist_id = << >>

\* config.py line 33: nobody holds playlist_lock
InitResetVars ==
    playlist_lock = NoThread

\* the value None as an argument, and a call that has not been made
NoneName == [type |-> "NoneType", val |-> << >>]
NotCalled == [called |-> FALSE, error |-> FALSE, val |-> << >>]
InitMatchVars ==
    /\ raw_tracks = NoTracks
    /\ track_dicts = NoTracks
    /\ matched = NoTracks
    /\ track_name = NoneName
    /\ cleaned = NotCalled

\* no call of find_missing_and_extra_tracks has begun
InitReconcileVars ==
    /\ playlist_tracks = [t \in Callers |-> << >>]
    /\ all_album_ids = [t \in Callers |-> << >>]
    /\ all_tracks = [t \in Callers |-> << >>]
    /\ unique_missing = [t \in Callers |-> << >>]
    /\ non_artist_tracks = [t \in Callers |-> << >>]
    /\ artist_names = [t \in Callers |-> << >>]
    /\ artist_index = [t \in Callers |-> 1]
    /\ artist_tracks = [t \in Callers |-> << >>]
    /\ target_artist_ids = [t \in Callers |-> {}]
    /\ lookups = [t \in Callers |-> {}]
    /\ failed_lookups = [t \in Callers |-> {}]
    /\ discography = [t \in Callers |-> << >>]

Init ==
    /\ remoteAlbums = 0
    /\ remoteArtists = {}
    /\ remoteNoDetail = {}
    /\ InitReconcileVars
    /\ InitSearchVars
    /\ InitFindVars
    /\ InitResetVars
    /\ InitMatchVars
    /\ InitMutateVars
    /\ remoteTotal \in 0..MaxTotal
    /\ remoteSkipped \in { S \in SUBSET Positions :
                             /\ Cardinality(S) <= MaxSkipped
                             /\ \A p \in S : p < remoteTotal }
    /\ remotePlaylists = << >>
    /\ playlistIds = {"p1"}
    /\ playlistNames = {}
    /\ playlists_cache = NoEntry
    /\ expired = {}
    /\ playlist_tracks_cache = [n \in PlaylistNames |-> NoEntry]
    /\ op = [t \in Callers |-> "gettracks"]
    /\ playlist_name = [t \in Callers |-> << >>]
    /\ playlists = [t \in Callers |-> << >>]
    /\ non_interactive \in BOOLEAN
    /\ cache = [k \in PlaylistIds |-> NoEntry]
    /\ invalidated = {}
    /\ processed_track_sets = [k \in PlaylistIds |-> NoEntry]
    /\ track_retrieval_lock = NoThread
    /\ pc = [t \in Callers |-> "idle"]
    /\ playlist_id = [t \in Callers |-> "p1"]
    /\ refresh = [t \in Callers |-> FALSE]
    /\ total = [t \in Callers |-> NoTotal]
    /\ tracklist = [t \in Callers |-> << >>]
    /\ futures = [t \in Callers |-> NoFutures]
    /\ collected = [t \in Callers |-> {}]
    /\ result = [t \in Callers |-> Returned(<< >>)]
    /\ listCalls = [t \in Callers |-> NoCalls]
    /\ fetchCount = 0
    /\ entryAtCall = [t \in Callers |-> NoEntry]
    /\ entryAtFetch = [t \in Callers |-> NoEntry]
    /\ raised = [t \in Callers |-> FALSE]
    /\ afterReturn = [t \in Callers |-> FALSE]
    /\ afterInvalidate = [t \in Callers |-> FALSE]
    /\ clean = TRUE

remoteVars == << remoteTotal, remoteSkipped, remotePlaylists, playlistIds,
                playlistNames, non_interactive >>
clientVars == << playlists_cache, playlist_tracks_cache, expired, op, playlist_name,
                playlists >>
catalogVars == << remoteAlbums, remoteArtists, remoteNoDetail >>
searchVars == << search_items, artist_name, aliases, artist_id, target_artist_id >>
findVars == << query_name, matched_playlist, mutation_playlist_id >>
resetVars == << playlist_lock >>
matchVars == << raw_tracks, track_dicts, matched, track_name, cleaned >>
mutateVars == << remote_items, track_uris, batch_start, sent, mutation_ok >>
reconcileVars == << catalogVars, playlist_tracks, all_album_ids, all_tracks,
                   unique_missing, non_artist_tracks, artist_names,
                   artist_index, artist_tracks, target_artist_ids, lookups,
                   failed_lookups, discography >>
storeVars == << cache, processed_track_sets, invalidated >>
argVars == << playlist_id, refresh >>
callVars == << entryAtCall, entryAtFetch, afterReturn, afterInvalidate >>

\* the call returns v to its caller
Return(t, v) ==
    /\ pc' = [pc EXCEPT ![t] = "done"]
    /\ result' = [result EXCEPT ![t] = v]

\* the call goes on to position l
Goto(t, l) ==
    /\ pc' = [pc EXCEPT ![t] = l]
    /\ result' = result

\* lines 189-197: the unlocked look at the cache
gettracks(t, id, r) ==
    /\ pc[t] = "idle"
    /\ id \in playlistIds
    /\ playlist_id' = [playlist_id EXCEPT ![t] = id]
    /\ refresh' = [refresh EXCEPT ![t] = r]
    /\ entryAtCall' = [entryAtCall EXCEPT ![t] = cache[id]]
    /\ afterReturn' = [afterReturn EXCEPT ![t] = \E u \in Callers : pc[u] = "done"]
    /\ afterInvalidate' = [afterInvalidate EXCEPT ![t] = id \in invalidated]
    /\ IF Truthy(cache[id]) /\ ~r
         THEN Return(t, Returned(cache[id].val))
         ELSE Goto(t, IF non_interactive /\ ~r THEN "session" ELSE "lock")
    /\ UNCHANGED << searchVars, findVars, resetVars, mutateVars, matchVars, reconcileVars, clientVars, remoteVars, storeVars, track_retrieval_lock, total, tracklist,
                    futures, collected, listCalls, fetchCount, entryAtFetch,
                    raised, clean >>

\* lines 199-206: non-interactive mode looks at the per-run record under the lock
session_check(t) ==
    /\ pc[t] = "session"
    /\ track_retrieval_lock = NoThread
    /\ IF processed_track_sets[playlist_id[t]].present
         THEN Return(t, Returned(processed_track_sets[playlist_id[t]].val))
         ELSE Goto(t, "lock")
    /\ UNCHANGED << searchVars, findVars, resetVars, mutateVars, matchVars, reconcileVars, clientVars, remoteVars, storeVars, track_retrieval_lock, argVars, total,
                    tracklist, futures, collected, listCalls, fetchCount,
                    callVars, raised, clean >>

\* lines 208-222: take the lock and look again at the cache and the record
acquire_lock(t) ==
    /\ pc[t] = "lock"
    /\ track_retrieval_lock = NoThread
    /\ LET id == playlist_id[t] IN
       IF ~refresh[t] /\ Truthy(cache[id])
         THEN /\ Return(t, Returned(cache[id].val))
              /\ UNCHANGED track_retrieval_lock
       ELSE IF ~refresh[t] /\ non_interactive /\ processed_track_sets[id].present
         THEN /\ Return(t, Returned(processed_track_sets[id].val))
              /\ UNCHANGED track_retrieval_lock
       ELSE /\ Goto(t, "first")
            /\ track_retrieval_lock' = t
    /\ entryAtFetch' = [entryAtFetch EXCEPT ![t] = cache[playlist_id[t]]]
    /\ UNCHANGED << searchVars, findVars, resetVars, mutateVars, matchVars, reconcileVars, clientVars, remoteVars, storeVars, argVars, total, tracklist, futures,
                    collected, listCalls, fetchCount, entryAtCall, afterReturn,
                    afterInvalidate,
                    raised, clean >>

\* the List call at offset o of thread t's fetch goes out
Issue(t, o) == listCalls' = [listCalls EXCEPT ![t][o] = @ + 1]

\* an empty playlist treated as an error
no_tracks_found_raises(t) ==
    /\ Return(t, Raised)
    /\ track_retrieval_lock' = NoThread
    /\ UNCHANGED << tracklist, futures, raised >>

\* lines 242-246: the first page reports total == 0
no_tracks_found(t) ==
    /\ Return(t, Returned(<< >>))
    /\ track_retrieval_lock' = NoThread
    /\ UNCHANGED << tracklist, futures, raised >>

\* lines 224-317: the first List call, made by the caller while it holds the lock
first_page(t, out) ==
    /\ pc[t] = "first"
    /\ fetchCount' = fetchCount + 1
    /\ Issue(t, 0)
    /\ clean' = (clean /\ out = "ok")
    /\ CASE out = "raise" ->
              /\ Return(t, Raised)
              /\ raised' = [raised EXCEPT ![t] = TRUE]
              /\ track_retrieval_lock' = NoThread
              /\ UNCHANGED << total, tracklist, futures >>
         [] out = "noitems" ->
              /\ Return(t, Returned(<< >>))
              /\ track_retrieval_lock' = NoThread
              /\ UNCHANGED << total, tracklist, futures, raised >>
         [] out = "ok" ->
              /\ total' = [total EXCEPT ![t] = remoteTotal]
              /\ IF remoteTotal = 0
                   THEN no_tracks_found(t)
                   ELSE /\ tracklist' = [tracklist EXCEPT ![t] = process_tracks_chunk(0)]
                        /\ futures' = [futures EXCEPT ![t] =
                              IF remoteTotal > chunk_size
                                THEN [o \in offsets(remoteTotal) |-> "pending"]
                                ELSE NoFutures]
                        /\ Goto(t, "pool")
                        /\ UNCHANGED << raised, track_retrieval_lock >>
    /\ UNCHANGED << searchVars, findVars, resetVars, mutateVars, matchVars, reconcileVars, clientVars, remoteVars, storeVars, argVars, collected, callVars >>

\* lines 320-324, 261-276: a pool worker takes the task of offset o and calls List
chunk_start(t, o) ==
    /\ pc[t] \in {"pool", "shutdown"}
    /\ o \in DOMAIN futures[t]
    /\ futures[t][o] = "pending"
    /\ Cardinality(Running(t)) < max_workers
    /\ futures' = [futures EXCEPT ![t][o] = "running"]
    /\ Issue(t, o)
    /\ UNCHANGED << searchVars, findVars, resetVars, mutateVars, matchVars, reconcileVars, clientVars, remoteVars, storeVars, track_retrieval_lock, pc, argVars, total,
                    tracklist, collected, result, fetchCount, callVars, raised,
                    clean >>

\* lines 278-300: the List call of offset o comes back and the task ends
chunk_done(t, o, out) ==
    /\ o \in DOMAIN futures[t]
    /\ futures[t][o] = "running"
    /\ futures' = [futures EXCEPT ![t][o] = out]
    /\ clean' = (clean /\ out = "ok")
    /\ raised' = [raised EXCEPT ![t] = @ \/ out = "raise"]
    /\ UNCHANGED << searchVars, findVars, resetVars, mutateVars, matchVars, reconcileVars, clientVars, remoteVars, storeVars, track_retrieval_lock, pc, argVars, total,
                    tracklist, collected, result, listCalls, fetchCount, callVars >>

\* as_completed with the exception of a page logged and not raised again
as_completed_swallow(t, o) ==
    /\ pc[t] = "pool"
    /\ o \in Finished(t) \ collected[t]
    /\ collected' = [collected EXCEPT ![t] = @ \cup {o}]
    /\ tracklist' = [tracklist EXCEPT ![t] = @ \o
          (IF futures[t][o] = "ok" THEN process_tracks_chunk(o) ELSE << >>)]
    /\ UNCHANGED << pc, result >>
    /\ UNCHANGED << searchVars, findVars, resetVars, mutateVars, matchVars, reconcileVars, clientVars, remoteVars, storeVars, track_retrieval_lock, argVars, total,
                    futures, listCalls, fetchCount, callVars, raised, clean >>

\* lines 327-352: as_completed yields the finished future of offset o; its
\* exception is raised again, its tracks are appended to tracklist
as_completed(t, o) ==
    /\ pc[t] = "pool"
    /\ o \in Finished(t) \ collected[t]
    /\ collected' = [collected EXCEPT ![t] = @ \cup {o}]
    /\ IF futures[t][o] = "raise"
         THEN /\ Goto(t, "shutdown")
              /\ UNCHANGED tracklist
         ELSE /\ tracklist' = [tracklist EXCEPT ![t] = @ \o
                    (IF futures[t][o] = "ok" THEN process_tracks_chunk(o) ELSE << >>)]
              /\ UNCHANGED << pc, result >>
    /\ UNCHANGED << searchVars, findVars, resetVars, mutateVars, matchVars, reconcileVars, clientVars, remoteVars, storeVars, track_retrieval_lock, argVars, total,
                    futures, listCalls, fetchCount, callVars, raised, clean >>

\* the exception path with the tracks collected so far written to the cache
executor_shutdown_caches(t) ==
    /\ pc[t] = "shutdown"
    /\ Finished(t) = DOMAIN futures[t]
    /\ Return(t, Raised)
    /\ track_retrieval_lock' = NoThread
    /\ cache' = [cache EXCEPT ![playlist_id[t]] = Entry(SortByPosition(tracklist[t]))]
    /\ invalidated' = invalidated \ {playlist_id[t]}
    /\ UNCHANGED << searchVars, findVars, resetVars, mutateVars, matchVars, reconcileVars, clientVars, remoteVars, processed_track_sets, argVars, total, tracklist,
                    futures, collected, listCalls, fetchCount, callVars, raised,
                    clean >>

\* the exception path that does not wait for the tasks of the pool
executor_shutdown_nowait(t) ==
    /\ pc[t] = "shutdown"
    /\ Return(t, Raised)
    /\ track_retrieval_lock' = NoThread
    /\ UNCHANGED << searchVars, findVars, resetVars, mutateVars, matchVars, reconcileVars, clientVars, remoteVars, storeVars, argVars, total, tracklist, futures,
                    collected, listCalls, fetchCount, callVars, raised, clean >>

\* lines 320, 371-376: the exception leaves the `with` block once every task of
\* the pool has ended, and reaches the caller
executor_shutdown(t) ==
    /\ pc[t] = "shutdown"
    /\ Finished(t) = DOMAIN futures[t]
    /\ Return(t, Raised)
    /\ track_retrieval_lock' = NoThread
    /\ UNCHANGED << searchVars, findVars, resetVars, mutateVars, matchVars, reconcileVars, clientVars, remoteVars, storeVars, argVars, total, tracklist, futures,
                    collected, listCalls, fetchCount, callVars, raised, clean >>

\* the return that leaves track_retrieval_lock with the thread
finalize_keeps_lock(t) ==
    /\ pc[t] = "pool"
    /\ collected[t] = DOMAIN futures[t]
    /\ LET sorted == SortByPosition(tracklist[t]) IN
         /\ tracklist' = [tracklist EXCEPT ![t] = sorted]
         /\ processed_track_sets' =
              IF non_interactive
                THEN [processed_track_sets EXCEPT ![playlist_id[t]] = Entry(sorted)]
                ELSE processed_track_sets
         /\ cache' = [cache EXCEPT ![playlist_id[t]] = Entry(sorted)]
         /\ invalidated' = invalidated \ {playlist_id[t]}
         /\ Return(t, Returned(sorted))
    /\ track_retrieval_lock' = track_retrieval_lock
    /\ UNCHANGED << searchVars, findVars, resetVars, mutateVars, matchVars, reconcileVars, clientVars, remoteVars, argVars, total, futures, collected, listCalls,
                    fetchCount, callVars, raised, clean >>

\* lines 354-369: sort by position, record, cache and return
finalize(t) ==
    /\ pc[t] = "pool"
    /\ collected[t] = DOMAIN futures[t]
    /\ LET sorted == SortByPosition(tracklist[t]) IN
         /\ tracklist' = [tracklist EXCEPT ![t] = sorted]
         /\ processed_track_sets' =
              IF non_interactive
                THEN [processed_track_sets EXCEPT ![playlist_id[t]] = Entry(sorted)]
                ELSE processed_track_sets
         /\ cache' = [cache EXCEPT ![playlist_id[t]] = Entry(sorted)]
         /\ invalidated' = invalidated \ {playlist_id[t]}
         /\ Return(t, Returned(sorted))
    /\ track_retrieval_lock' = NoThread
    /\ UNCHANGED << searchVars, findVars, resetVars, mutateVars, matchVars, reconcileVars, clientVars, remoteVars, argVars, total, futures, collected, listCalls,
                    fetchCount, callVars, raised, clean >>

Next ==
    \/ \E t \in Callers, id \in PlaylistIds, r \in BOOLEAN : gettracks(t, id, r)
    \/ \E t \in Callers : session_check(t)
    \/ \E t \in Callers : acquire_lock(t)
    \/ \E t \in Callers, out \in Outcomes : first_page(t, out)
    \/ \E t \in Callers, o \in PageOffsets : chunk_start(t, o)
    \/ \E t \in Callers, o \in PageOffsets, out \in Outcomes : chunk_done(t, o, out)
    \/ \E t \in Callers, o \in PageOffsets : as_completed(t, o)
    \/ \E t \in Callers : executor_shutdown(t)
    \/ \E t \in Callers : finalize(t)

Spec == Init /\ [][Next]_vars

\* config.py lines 53-55: the entry of the key is deleted from the disk cache.
\* No line deletes the key from processed_track_sets.
invalidate_cache(cache_key) ==
    /\ cache_key \in playlistIds
    /\ cache' = [cache EXCEPT ![cache_key] = NoEntry]
    /\ invalidated' = invalidated \cup {cache_key}
    /\ UNCHANGED << searchVars, findVars, resetVars, mutateVars, matchVars, reconcileVars, clientVars,
                    remoteVars, processed_track_sets, track_retrieval_lock,
                    pc, argVars, total, tracklist, futures, collected, result,
                    listCalls, fetchCount, callVars, raised, clean >>

\* invalidate_cache has no caller in the repository: the calls of gettracks
\* of a run with calls of invalidate_cache between them
NextInvalidate ==
    \/ Next
    \/ \E k \in PlaylistIds : invalidate_cache(k)

SpecInvalidate == Init /\ [][NextInvalidate]_vars

\* the thread that resets the tracking between two runs
MainThread == NumCallers + 1

\* config.py lines 41-43: reset_processed_tracking takes playlist_lock
reset_processed_tracking(t) ==
    /\ t = MainThread
    /\ playlist_lock = NoThread
    /\ playlist_lock' = t
    /\ UNCHANGED << searchVars, findVars, mutateVars, matchVars, reconcileVars,
                    clientVars, remoteVars, storeVars, track_retrieval_lock,
                    pc, argVars, total, tracklist, futures, collected, result,
                    listCalls, fetchCount, callVars, raised, clean >>

\* config.py lines 44-45: the records of the run are cleared and
\* playlist_lock is released
processed_track_sets_clear(t) ==
    /\ playlist_lock = t
    /\ processed_track_sets' = [k \in PlaylistIds |-> NoEntry]
    /\ playlist_lock' = NoThread
    /\ UNCHANGED << searchVars, findVars, mutateVars, matchVars, reconcileVars,
                    clientVars, remoteVars, cache, invalidated,
                    track_retrieval_lock, pc, argVars, total, tracklist,
                    futures, collected, result, listCalls, fetchCount,
                    callVars, raised, clean >>

NextReset ==
    \/ Next
    \/ reset_processed_tracking(MainThread)
    \/ processed_track_sets_clear(MainThread)

SpecReset == Init /\ [][NextReset]_vars

\* the steps of a call of gettracks after the call itself: the look at the
\* record, the wait for the lock, the List calls and the pool
Progress(t) ==
    \/ session_check(t)
    \/ acquire_lock(t)
    \/ \E out \in Outcomes : first_page(t, out)
    \/ \E o \in PageOffsets : chunk_start(t, o)
    \/ \E o \in PageOffsets, out \in Outcomes : chunk_done(t, o, out)
    \/ \E o \in PageOffsets : as_completed(t, o)
    \/ executor_shutdown(t)
    \/ finalize(t)

\* every thread that can take a step takes one, and every List call
\* returns; a thread need not call gettracks
Fairness == \A t \in Callers : WF_vars(Progress(t))

\* a run whose threads call gettracks for any of the playlists
InitKeys ==
    /\ remoteAlbums = 0
    /\ remoteArtists = {}
    /\ remoteNoDetail = {}
    /\ InitReconcileVars
    /\ InitSearchVars
    /\ InitFindVars
    /\ InitResetVars
    /\ InitMatchVars
    /\ InitMutateVars
    /\ remoteTotal \in 0..MaxTotal
    /\ remoteSkipped \in { S \in SUBSET Positions :
                             /\ Cardinality(S) <= MaxSkipped
                             /\ \A p \in S : p < remoteTotal }
    /\ remotePlaylists = << >>
    /\ playlistIds = PlaylistIds
    /\ playlistNames = {}
    /\ playlists_cache = NoEntry
    /\ expired = {}
    /\ playlist_tracks_cache = [n \in PlaylistNames |-> NoEntry]
    /\ op = [t \in Callers |-> "gettracks"]
    /\ playlist_name = [t \in Callers |-> << >>]
    /\ playlists = [t \in Callers |-> << >>]
    /\ non_interactive \in BOOLEAN
    /\ cache = [k \in PlaylistIds |-> NoEntry]
    /\ invalidated = {}
    /\ processed_track_sets = [k \in PlaylistIds |-> NoEntry]
    /\ track_retrieval_lock = NoThread
    /\ pc = [t \in Callers |-> "idle"]
    /\ playlist_id = [t \in Callers |-> "p1"]
    /\ refresh = [t \in Callers |-> FALSE]
    /\ total = [t \in Callers |-> NoTotal]
    /\ tracklist = [t \in Callers |-> << >>]
    /\ futures = [t \in Callers |-> NoFutures]
    /\ collected = [t \in Callers |-> {}]
    /\ result = [t \in Callers |-> Returned(<< >>)]
    /\ listCalls = [t \in Callers |-> NoCalls]
    /\ fetchCount = 0
    /\ entryAtCall = [t \in Callers |-> NoEntry]
    /\ entryAtFetch = [t \in Callers |-> NoEntry]
    /\ raised = [t \in Callers |-> FALSE]
    /\ afterReturn = [t \in Callers |-> FALSE]
    /\ afterInvalidate = [t \in Callers |-> FALSE]
    /\ clean = TRUE

SpecKeys == InitKeys /\ [][Next]_vars

\* a run in which the first and the last thread call gettracks
InitLive ==
    /\ remoteAlbums = 0
    /\ remoteArtists = {}
    /\ remoteNoDetail = {}
    /\ InitReconcileVars
    /\ InitSearchVars
    /\ InitFindVars
    /\ InitResetVars
    /\ InitMatchVars
    /\ InitMutateVars
    /\ remoteTotal \in 0..MaxTotal
    /\ remoteSkipped \in { S \in SUBSET Positions :
                             /\ Cardinality(S) <= MaxSkipped
                             /\ \A p \in S : p < remoteTotal }
    /\ remotePlaylists = << >>
    /\ playlistIds = {"p1"}
    /\ playlistNames = {}
    /\ playlists_cache = NoEntry
    /\ expired = {}
    /\ playlist_tracks_cache = [n \in PlaylistNames |-> NoEntry]
    /\ op = [t \in Callers |-> "gettracks"]
    /\ playlist_name = [t \in Callers |-> << >>]
    /\ playlists = [t \in Callers |-> << >>]
    /\ non_interactive \in BOOLEAN
    /\ cache = [k \in PlaylistIds |-> NoEntry]
    /\ invalidated = {}
    /\ processed_track_sets = [k \in PlaylistIds |-> NoEntry]
    /\ track_retrieval_lock = NoThread
    /\ pc = [t \in Callers |-> IF t \in {1, NumCallers} THEN "idle" ELSE "done"]
    /\ playlist_id = [t \in Callers |-> "p1"]
    /\ refresh = [t \in Callers |-> FALSE]
    /\ total = [t \in Callers |-> NoTotal]
    /\ tracklist = [t \in Callers |-> << >>]
    /\ futures = [t \in Callers |-> NoFutures]
    /\ collected = [t \in Callers |-> {}]
    /\ result = [t \in Callers |-> Returned(<< >>)]
    /\ listCalls = [t \in Callers |-> NoCalls]
    /\ fetchCount = 0
    /\ entryAtCall = [t \in Callers |-> NoEntry]
    /\ entryAtFetch = [t \in Callers |-> NoEntry]
    /\ raised = [t \in Callers |-> FALSE]
    /\ afterReturn = [t \in Callers |-> FALSE]
    /\ afterInvalidate = [t \in Callers |-> FALSE]
    /\ clean = TRUE

SpecLive == InitLive /\ [][Next]_vars /\ Fairness

(* ---------------------- SpotifyPlaylistUpdater ------------------------- *)

\* str.lower() on the characters playlist names are made of
LowerChar(c) ==
    IF c = "A" THEN "a" ELSE IF c = "B" THEN "b"
    ELSE IF c = "Feat" THEN "feat" ELSE c
Lower(s) == [i \in 1..Len(s) |-> LowerChar(s[i])]

\* x in y, for strings
Contains(y, x) ==
    \E i \in 0..(Len(y) - Len(x)) : SubSeq(y, i + 1, i + Len(x)) = x

\* match_priority of playlist i of the list pls for the name searched, 3 for none
MatchPriority(pls, i, name) ==
    LET n == Lower(remotePlaylists[pls[i]])
        q == Lower(name)
    IN  IF n = q THEN 0
        ELSE IF Contains(n, q) THEN 1
        ELSE IF Contains(q, n) THEN 2
        ELSE 3

\* playlist_matches: the indices of pls that match, in list order
RECURSIVE PlaylistMatches(_, _, _)
PlaylistMatches(pls, i, name) ==
    IF i > Len(pls) THEN << >>
    ELSE (IF MatchPriority(pls, i, name) < 3 THEN << i >> ELSE << >>)
         \o PlaylistMatches(pls, i + 1, name)

\* the sort that puts a match before the earlier matches of its kind
RECURSIVE InsertMatchBeforeEqual(_, _, _, _)
InsertMatchBeforeEqual(pls, name, x, s) ==
    IF s = << >> THEN << x >>
    ELSE IF MatchPriority(pls, x, name) <= MatchPriority(pls, Head(s), name)
      THEN << x >> \o s
      ELSE << Head(s) >> \o InsertMatchBeforeEqual(pls, name, x, Tail(s))

\* playlist_matches.sort(key=match_priority): a stable sort
RECURSIVE InsertMatch(_, _, _, _)
InsertMatch(pls, name, x, s) ==
    IF s = << >> THEN << x >>
    ELSE IF MatchPriority(pls, x, name) < MatchPriority(pls, Head(s), name)
      THEN << x >> \o s
      ELSE << Head(s) >> \o InsertMatch(pls, name, x, Tail(s))

RECURSIVE SortMatches(_, _, _)
SortMatches(pls, name, s) ==
    IF s = << >> THEN << >>
    ELSE InsertMatch(pls, name, s[Len(s)],
                     SortMatches(pls, name, SubSeq(s, 1, Len(s) - 1)))

\* the playlist find_playlist_by_name returns from the list pls, 0 for {}
find_playlist_by_name(pls, name) ==
    LET m == SortMatches(pls, name, PlaylistMatches(pls, 1, name))
    IN  IF m = << >> THEN 0 ELSE pls[m[1]]

\* the playlists one List call at offset delivers
process_playlist_chunk(offset) ==
    [i \in 1..(Min(offset + chunk_size, Len(remotePlaylists)) - offset) |-> offset + i]

\* the tracks one List call at offset delivers: the items that have a track
process_track_chunk(offset) ==
    PageItems(offset, Min(offset + chunk_size, remoteTotal))

\* outcomes of a List call of the client: the page, or an exception (a response
\* without "items" or "total" raises KeyError)
ClientOutcomes == {"ok", "raise"}

legacyVars == << playlistIds, non_interactive, cache, processed_track_sets,
                invalidated,
                track_retrieval_lock, playlist_id, fetchCount, entryAtFetch,
                afterReturn, afterInvalidate, clean >>
worldVars == << remoteTotal, remoteSkipped, remotePlaylists, playlistNames >>

InitClient ==
    /\ remoteAlbums = 0
    /\ remoteArtists = {}
    /\ remoteNoDetail = {}
    /\ InitReconcileVars
    /\ InitSearchVars
    /\ InitFindVars
    /\ InitResetVars
    /\ InitMatchVars
    /\ InitMutateVars
    /\ remoteTotal \in 0..MaxTotal
    /\ remoteSkipped \in { S \in SUBSET Positions :
                             /\ Cardinality(S) <= MaxSkipped
                             /\ \A p \in S : p < remoteTotal /\ p < chunk_size }
    /\ remotePlaylists \in
          { << >>, << << "a", "b" >> >>,
            [i \in 1..MaxPlaylists |-> IF i = MaxPlaylists THEN << "A", "B" >>
                                       ELSE << "a", "b", "b" >>] }
    /\ playlistIds = {}
    /\ playlistNames = { << "a", "b" >> }
    /\ non_interactive = FALSE
    /\ cache = [k \in PlaylistIds |-> NoEntry]
    /\ invalidated = {}
    /\ processed_track_sets = [k \in PlaylistIds |-> NoEntry]
    /\ track_retrieval_lock = NoThread
    /\ playlists_cache = NoEntry
    /\ expired = {}
    /\ playlist_tracks_cache = [n \in PlaylistNames |-> NoEntry]
    /\ op = [t \in Callers |-> "none"]
    /\ playlist_name = [t \in Callers |-> << >>]
    /\ playlists = [t \in Callers |-> << >>]
    /\ pc = [t \in Callers |-> "idle"]
    /\ playlist_id = [t \in Callers |-> "p1"]
    /\ refresh = [t \in Callers |-> FALSE]
    /\ total = [t \in Callers |-> NoTotal]
    /\ tracklist = [t \in Callers |-> << >>]
    /\ futures = [t \in Callers |-> NoFutures]
    /\ collected = [t \in Callers |-> {}]
    /\ result = [t \in Callers |-> Returned(<< >>)]
    /\ listCalls = [t \in Callers |-> NoCalls]
    /\ fetchCount = 0
    /\ entryAtCall = [t \in Callers |-> NoEntry]
    /\ entryAtFetch = [t \in Callers |-> NoEntry]
    /\ raised = [t \in Callers |-> FALSE]
    /\ afterReturn = [t \in Callers |-> FALSE]
    /\ afterInvalidate = [t \in Callers |-> FALSE]
    /\ clean = TRUE

\* get_playlist_tracks hands the list v to its caller: the thread itself, or
\* find_missing_and_extra_tracks (line 912)
leave_get_playlist_tracks(t, v) ==
    /\ result' = [result EXCEPT ![t] = Returned(v)]
    /\ pc' = [pc EXCEPT ![t] = IF op[t] = "find_missing_and_extra_tracks"
                                 THEN "compare" ELSE "done"]

\* lines 221-227: get_playlist_tracks goes on with the list pls that
\* get_user_playlists returned
playlist_found(t, pls) ==
    IF find_playlist_by_name(pls, playlist_name[t]) = 0
      THEN leave_get_playlist_tracks(t, << >>)
      ELSE Goto(t, "tracks_first")

\* get_user_playlists hands v to its caller: the thread itself, or
\* find_playlist_by_name within get_playlist_tracks (lines 165, 329-331)
leave_get_user_playlists(t, v) ==
    IF op[t] = "get_user_playlists" \/ v.error
      THEN Return(t, v)
      ELSE playlist_found(t, v.val)

\* the key the ages of the entries are kept under for self._playlists_cache;
\* the entries of self._playlist_tracks_cache are kept under their names
PlaylistsKey == << "playlists" >>

\* lines 64-73: get_user_playlists looks at the cache
enter_get_user_playlists(t, force) ==
    IF playlists_cache.present /\ ~force
      THEN leave_get_user_playlists(t, Returned(playlists_cache.val))
      ELSE Goto(t, "playlists_first")

\* a thread calls get_user_playlists(force_refresh)
get_user_playlists(t, force) ==
    /\ pc[t] = "idle"
    /\ op' = [op EXCEPT ![t] = "get_user_playlists"]
    /\ refresh' = [refresh EXCEPT ![t] = force]
    /\ entryAtCall' = [entryAtCall EXCEPT ![t] = playlists_cache]
    /\ enter_get_user_playlists(t, force)
    /\ UNCHANGED << searchVars, findVars, resetVars, mutateVars, matchVars, reconcileVars, legacyVars, worldVars, playlists_cache, playlist_tracks_cache, expired,
                    playlist_name, playlists, total, tracklist, futures,
                    collected, listCalls, raised >>

\* get_playlist_tracks without the look at the cache
enter_get_playlist_tracks_refetch(t, name, method) ==
    /\ pc[t] = "idle"
    /\ name \in playlistNames
    /\ op' = [op EXCEPT ![t] = method]
    /\ playlist_name' = [playlist_name EXCEPT ![t] = name]
    /\ entryAtCall' = [entryAtCall EXCEPT ![t] = playlist_tracks_cache[name]]
    /\ Goto(t, "find")

\* lines 212-217: get_playlist_tracks(playlist_name) looks at the cache;
\* method is what the thread called
enter_get_playlist_tracks(t, name, method) ==
    /\ pc[t] = "idle"
    /\ name \in playlistNames
    /\ op' = [op EXCEPT ![t] = method]
    /\ playlist_name' = [playlist_name EXCEPT ![t] = name]
    /\ entryAtCall' = [entryAtCall EXCEPT ![t] = playlist_tracks_cache[name]]
    /\ IF playlist_tracks_cache[name].present
         THEN /\ result' = [result EXCEPT ![t] =
                              Returned(playlist_tracks_cache[name].val)]
              /\ pc' = [pc EXCEPT ![t] = IF method = "find_missing_and_extra_tracks"
                                           THEN "compare" ELSE "done"]
         ELSE Goto(t, "find")

\* a thread calls get_playlist_tracks(playlist_name)
get_playlist_tracks(t, name) ==
    /\ enter_get_playlist_tracks(t, name, "get_playlist_tracks")
    /\ UNCHANGED << searchVars, findVars, resetVars, mutateVars, matchVars, reconcileVars, legacyVars, worldVars, playlists_cache, playlist_tracks_cache, expired,
                    playlists, refresh, total, tracklist, futures, collected,
                    listCalls, raised >>

\* lines 163-165, 219-221: find_playlist_by_name calls get_user_playlists()
find_playlist(t) ==
    /\ pc[t] = "find"
    /\ enter_get_user_playlists(t, FALSE)
    /\ UNCHANGED << searchVars, findVars, resetVars, mutateVars, matchVars, reconcileVars, legacyVars, worldVars, playlists_cache, playlist_tracks_cache, expired,
                    op, playlist_name, playlists, refresh, total, tracklist,
                    futures, collected, listCalls, raised, entryAtCall >>

\* lines 73-101, 136-143: the first List call of get_user_playlists
playlists_first_page(t, out) ==
    /\ pc[t] = "playlists_first"
    /\ listCalls' = [listCalls EXCEPT ![t] = [NoCalls EXCEPT ![0] = 1]]
    /\ collected' = [collected EXCEPT ![t] = {}]
    /\ IF out = "raise"
         THEN /\ Return(t, Raised)
              /\ raised' = [raised EXCEPT ![t] = TRUE]
              /\ UNCHANGED << playlists_cache, playlists, total, futures >>
         ELSE /\ total' = [total EXCEPT ![t] = Len(remotePlaylists)]
              /\ UNCHANGED raised
              /\ IF Len(remotePlaylists) = 0
                   THEN /\ playlists_cache' = Entry(<< >>)
                        /\ leave_get_user_playlists(t, Returned(<< >>))
                        /\ UNCHANGED << playlists, futures >>
                   ELSE /\ playlists' = [playlists EXCEPT ![t] = process_playlist_chunk(0)]
                        /\ futures' = [futures EXCEPT ![t] =
                              IF Len(remotePlaylists) > chunk_size
                                THEN [o \in offsets(Len(remotePlaylists)) |-> "pending"]
                                ELSE NoFutures]
                        /\ Goto(t, "playlists_pool")
                        /\ UNCHANGED playlists_cache
    /\ expired' = IF out # "raise" /\ Len(remotePlaylists) = 0
                    THEN expired \ {PlaylistsKey} ELSE expired
    /\ UNCHANGED << searchVars, findVars, resetVars, mutateVars, matchVars, reconcileVars, legacyVars, worldVars, playlist_tracks_cache, op,
                    playlist_name, refresh, tracklist, entryAtCall >>

\* lines 229-253, 304-311: the first List call of get_playlist_tracks
tracks_first_page(t, out) ==
    /\ pc[t] = "tracks_first"
    /\ listCalls' = [listCalls EXCEPT ![t] = [NoCalls EXCEPT ![0] = 1]]
    /\ collected' = [collected EXCEPT ![t] = {}]
    /\ IF out = "raise"
         THEN /\ Return(t, Raised)
              /\ raised' = [raised EXCEPT ![t] = TRUE]
              /\ UNCHANGED << playlist_tracks_cache, tracklist, total, futures >>
         ELSE /\ total' = [total EXCEPT ![t] = remoteTotal]
              /\ UNCHANGED raised
              /\ IF remoteTotal = 0
                   THEN /\ playlist_tracks_cache' =
                             [playlist_tracks_cache EXCEPT ![playlist_name[t]] = Entry(<< >>)]
                        /\ leave_get_playlist_tracks(t, << >>)
                        /\ UNCHANGED << tracklist, futures >>
                   ELSE /\ tracklist' = [tracklist EXCEPT ![t] = process_track_chunk(0)]
                        /\ futures' = [futures EXCEPT ![t] =
                              IF remoteTotal > chunk_size
                                THEN [o \in offsets(remoteTotal) |-> "pending"]
                                ELSE NoFutures]
                        /\ Goto(t, "tracks_pool")
                        /\ UNCHANGED playlist_tracks_cache
    /\ expired' = IF out # "raise" /\ remoteTotal = 0
                    THEN expired \ {playlist_name[t]} ELSE expired
    /\ UNCHANGED << searchVars, findVars, resetVars, mutateVars, matchVars, reconcileVars, legacyVars, worldVars, playlists_cache, op, playlist_name,
                    playlists, refresh, entryAtCall >>

ClientPools == {"playlists_pool", "tracks_pool"}
ClientShutdowns == {"playlists_shutdown", "tracks_shutdown"}

\* lines 137-143, 305-311: a pool worker takes the task of offset o and calls List
client_chunk_start(t, o) ==
    /\ pc[t] \in ClientPools \cup ClientShutdowns
    /\ o \in DOMAIN futures[t]
    /\ futures[t][o] = "pending"
    /\ Cardinality(Running(t)) < client_max_workers
    /\ futures' = [futures EXCEPT ![t][o] = "running"]
    /\ Issue(t, o)
    /\ UNCHANGED << searchVars, findVars, resetVars, mutateVars, matchVars, reconcileVars, legacyVars, worldVars, clientVars, pc, refresh, total,
                    tracklist, collected, result, entryAtCall, raised >>

\* lines 103-133, 261-301: the List call of offset o comes back and the task ends
client_chunk_done(t, o, out) ==
    /\ pc[t] \in ClientPools \cup ClientShutdowns
    /\ o \in DOMAIN futures[t]
    /\ futures[t][o] = "running"
    /\ futures' = [futures EXCEPT ![t][o] = out]
    /\ raised' = [raised EXCEPT ![t] = @ \/ out = "raise"]
    /\ UNCHANGED << searchVars, findVars, resetVars, mutateVars, matchVars, reconcileVars, legacyVars, worldVars, clientVars, pc, refresh, total,
                    tracklist, collected, result, listCalls, entryAtCall >>

\* lines 145-152, 313-320: as_completed yields the finished future of offset o
client_as_completed(t, o) ==
    /\ pc[t] \in ClientPools
    /\ o \in Finished(t) \ collected[t]
    /\ collected' = [collected EXCEPT ![t] = @ \cup {o}]
    /\ IF futures[t][o] = "raise"
         THEN /\ Goto(t, IF pc[t] = "playlists_pool" THEN "playlists_shutdown"
                                                      ELSE "tracks_shutdown")
              /\ UNCHANGED << playlists, tracklist >>
         ELSE /\ IF pc[t] = "playlists_pool"
                   THEN /\ playlists' = [playlists EXCEPT ![t] =
                                            @ \o process_playlist_chunk(o)]
                        /\ UNCHANGED tracklist
                   ELSE /\ tracklist' = [tracklist EXCEPT ![t] =
                                            @ \o process_track_chunk(o)]
                        /\ UNCHANGED playlists
              /\ UNCHANGED << pc, result >>
    /\ UNCHANGED << searchVars, findVars, resetVars, mutateVars, matchVars, reconcileVars, legacyVars, worldVars, playlists_cache, playlist_tracks_cache, expired,
                    op, playlist_name, refresh, total, futures, listCalls,
                    entryAtCall, raised >>

\* lines 137, 159-161, 305, 329-331: the exception leaves the `with` block once
\* every task of the pool has ended, and reaches the caller
client_executor_shutdown(t) ==
    /\ pc[t] \in ClientShutdowns
    /\ Finished(t) = DOMAIN futures[t]
    /\ Return(t, Raised)
    /\ UNCHANGED << searchVars, findVars, resetVars, mutateVars, matchVars, reconcileVars, legacyVars, worldVars, clientVars, refresh, total, tracklist,
                    futures, collected, listCalls, entryAtCall, raised >>

\* lines 154-157: get_user_playlists caches the list and returns it
playlists_finalize(t) ==
    /\ pc[t] = "playlists_pool"
    /\ collected[t] = DOMAIN futures[t]
    /\ playlists_cache' = Entry(playlists[t])
    /\ expired' = expired \ {PlaylistsKey}
    /\ leave_get_user_playlists(t, Returned(playlists[t]))
    /\ UNCHANGED << searchVars, findVars, resetVars, mutateVars, matchVars, reconcileVars, legacyVars, worldVars, playlist_tracks_cache, op,
                    playlist_name, playlists, refresh, total, tracklist, futures,
                    collected, listCalls, entryAtCall, raised >>

\* lines 322-327: get_playlist_tracks caches the tracks and returns them
tracks_finalize(t) ==
    /\ pc[t] = "tracks_pool"
    /\ collected[t] = DOMAIN futures[t]
    /\ playlist_tracks_cache' =
          [playlist_tracks_cache EXCEPT ![playlist_name[t]] = Entry(tracklist[t])]
    /\ expired' = expired \ {playlist_name[t]}
    /\ leave_get_playlist_tracks(t, tracklist[t])
    /\ UNCHANGED << searchVars, findVars, resetVars, mutateVars, matchVars, reconcileVars, legacyVars, worldVars, playlists_cache, op, playlist_name,
                    playlists, refresh, total, tracklist, futures, collected,
                    listCalls, entryAtCall, raised >>

NextClient ==
    \/ \E t \in Callers, force \in BOOLEAN : get_user_playlists(t, force)
    \/ \E t \in Callers, name \in PlaylistNames : get_playlist_tracks(t, name)
    \/ \E t \in Callers : find_playlist(t)
    \/ \E t \in Callers, out \in ClientOutcomes : playlists_first_page(t, out)
    \/ \E t \in Callers, out \in ClientOutcomes : tracks_first_page(t, out)
    \/ \E t \in Callers, o \in PageOffsets : client_chunk_start(t, o)
    \/ \E t \in Callers, o \in PageOffsets, out \in ClientOutcomes :
          client_chunk_done(t, o, out)
    \/ \E t \in Callers, o \in PageOffsets : client_as_completed(t, o)
    \/ \E t \in Callers : client_executor_shutdown(t)
    \/ \E t \in Callers : playlists_finalize(t)
    \/ \E t \in Callers : tracks_finalize(t)

SpecClient == InitClient /\ [][NextClient]_vars

\* Twenty-four hours pass: every entry the two caches hold now is older than
\* 24 hours from here on. Lines 49-51, 154-155, 322-323: the caches are an
\* attribute and a dict of lists, written without a time, so the entries
\* stay.
a_day_passes ==
    /\ expired' = { k \in PlaylistNames \cup {PlaylistsKey} :
                      IF k = PlaylistsKey THEN playlists_cache.present
                      ELSE playlist_tracks_cache[k].present }
    /\ UNCHANGED << searchVars, findVars, resetVars, mutateVars, matchVars, reconcileVars, legacyVars,
                    worldVars, playlists_cache, playlist_tracks_cache, op,
                    playlist_name, playlists, pc, refresh, total, tracklist,
                    futures, collected, result, listCalls, entryAtCall,
                    raised >>

\* the calls of the client in a process that lives longer than a day
NextExpiry ==
    \/ NextClient
    \/ a_day_passes

SpecExpiry == InitClient /\ [][NextExpiry]_vars

(* ------------------- find_missing_and_extra_tracks --------------------- *)

\* The remote catalog has the albums 1..remoteAlbums. Album a carries one
\* track, a recording of song AlbumSong(a) by artist AlbumArtist(a); the
\* playlist item at position p is a recording of song p. Names carry no
\* featuring part, and an artist's id is its name.
AlbumSong(a) == IF a = 1 THEN 0 ELSE 1
AlbumArtist(a) == IF a = 2 THEN "B" ELSE "A"
SongName(s) == [j \in 1..(s + 1) |-> "b"]
Upper(s) == [j \in 1..Len(s) |-> IF s[j] = "b" THEN "B" ELSE s[j]]

\* track_utils.format_duration: "M:SS" of a duration in milliseconds
format_duration(duration_ms) ==
    [minutes |-> (duration_ms \div 1000) \div 60,
     seconds |-> (duration_ms \div 1000) % 60]

\* the dict get_playlist_tracks builds of the item at position p
PlaylistTrack(p) ==
    [name |-> SongName(p), duration |-> format_duration(200900 + 2000 * p)]

\* the dict process_album_batch builds of the track of album a
\* the release date of album a, a number for the ISO date string: later
\* albums are older, and albums 2 and 4 came out on the same day
ReleaseDate(a) == IF a = 4 THEN 2028 ELSE 2030 - a

AlbumTrack(a) ==
    [name |-> Upper(SongName(AlbumSong(a))),
     duration |-> format_duration(198000 + 4000 * a),
     release_date |-> ReleaseDate(a)]

\* the artist ids of the detail the remote has of the track at position p
TrackArtists(p) ==
    LET ids == { AlbumArtist(a) : a \in { b \in 1..remoteAlbums : AlbumSong(b) = p } }
    IN  IF ids = {} THEN {"X"} ELSE ids

\* lines 441-446, 578-587: the track at position p is by none of the targets
NotByTarget(p, targets) == TrackArtists(p) \cap targets = {}

duration_to_seconds(duration) == duration.minutes * 60 + duration.seconds

Abs(x) == IF x < 0 THEN 0 - x ELSE x

\* the duration test that forgets the absolute value
is_duration_within_range_signed(duration1, duration2) ==
    duration_to_seconds(duration1) - duration_to_seconds(duration2)
        <= range_seconds

is_duration_within_range(duration1, duration2) ==
    Abs(duration_to_seconds(duration1) - duration_to_seconds(duration2))
        <= range_seconds

\* the match that puts only the first name in lower case
is_track_match_lower_first(track1, track2) ==
    /\ Lower(track1.name) = track2.name
    /\ is_duration_within_range(track1.duration, track2.duration)

\* the match that compares the names as they are written
is_track_match_cased(track1, track2) ==
    /\ track1.name = track2.name
    /\ is_duration_within_range(track1.duration, track2.duration)

\* track_utils.is_track_match
is_track_match(track1, track2) ==
    /\ Lower(track1.name) = Lower(track2.name)
    /\ is_duration_within_range(track1.duration, track2.duration)

\* range(0, n, batch_size)
BatchStarts(n) == { i \in 0..(n - 1) : i % batch_size = 0 }

\* ids[i: i + batch_size]
Batch(ids, i) == SubSeq(ids, i + 1, Min(i + batch_size, Len(ids)))

\* the albums the remote lists for the artist, in listing order
AlbumsOf(artist) ==
    SelectSeq([a \in 1..remoteAlbums |-> a], LAMBDA a : AlbumArtist(a) = artist)

\* the ids of the albums the listing page at offset k delivers
AlbumPage(artist, k) ==
    SubSeq(AlbumsOf(artist), k + 1, Min(k + chunk_size, Len(AlbumsOf(artist))))

\* lines 932-941: the artist tracks that match no playlist track
missing_tracks(tracks, pls) ==
    SelectSeq(tracks,
              LAMBDA a : ~ \E i \in 1..Len(pls) :
                             is_track_match(AlbumTrack(a), PlaylistTrack(pls[i])))

\* the deduplication that keeps the last track of every group
RECURSIVE UniqueLast(_)
UniqueLast(s) ==
    IF s = << >> THEN << >>
    ELSE LET u == UniqueLast(Tail(s))
             x == Head(s)
         IN  IF \E i \in 1..Len(u) : is_track_match(AlbumTrack(x), AlbumTrack(u[i]))
               THEN u ELSE << x >> \o u

\* lines 785-799, 943-952: the first track of every group of matching tracks
RECURSIVE Unique(_)
Unique(s) ==
    IF s = << >> THEN << >>
    ELSE LET u == Unique(SubSeq(s, 1, Len(s) - 1))
             x == s[Len(s)]
         IN  IF \E i \in 1..Len(u) : is_track_match(AlbumTrack(x), AlbumTrack(u[i]))
               THEN u ELSE Append(u, x)

\* the insertion of a sort that puts a track before the tracks of its date
RECURSIVE InsertByDateBeforeEqual(_, _)
InsertByDateBeforeEqual(x, s) ==
    IF s = << >> THEN << x >>
    ELSE IF AlbumTrack(x).release_date <= AlbumTrack(Head(s)).release_date
      THEN << x >> \o s
      ELSE << Head(s) >> \o InsertByDateBeforeEqual(x, Tail(s))

\* line 963: unique_missing.sort(key=release_date), a stable sort
RECURSIVE InsertByDate(_, _)
InsertByDate(x, s) ==
    IF s = << >> THEN << x >>
    ELSE IF AlbumTrack(x).release_date < AlbumTrack(Head(s)).release_date
      THEN << x >> \o s
      ELSE << Head(s) >> \o InsertByDate(x, Tail(s))

RECURSIVE SortByDate(_)
SortByDate(s) ==
    IF s = << >> THEN << >>
    ELSE InsertByDate(s[Len(s)], SortByDate(SubSeq(s, 1, Len(s) - 1)))

\* line 964: extra_tracks.sort(key=name.lower()); the name of the item at
\* position p is p + 1 times the same letter, so names order as positions do
SortByName(s) == SortByPosition(s)

\* what find_missing_and_extra_tracks returns
Comparison(missing, extra) ==
    Returned([missing |-> missing, extra |-> extra])

\* line 907: the lists of aliases an artist string splits into
ArtistStrings == { << "A" >>, << "A", "B" >>, << "B", "A" >> }

fetchVars == << playlists_cache, playlist_tracks_cache, expired, op, playlist_name,
               playlists, refresh, total, tracklist, listCalls, entryAtCall >>

InitReconcile ==
    /\ remoteAlbums \in 0..MaxAlbums
    /\ remoteArtists \in SUBSET {"A", "B"}
    /\ remoteTotal \in 0..MaxTotal
    /\ remoteNoDetail \in { S \in SUBSET Positions :
                              /\ Cardinality(S) <= 1
                              /\ \A p \in S : p < remoteTotal }
    /\ InitReconcileVars
    /\ InitSearchVars
    /\ InitFindVars
    /\ InitResetVars
    /\ InitMatchVars
    /\ InitMutateVars
    /\ remoteSkipped \in { S \in SUBSET Positions :
                             /\ Cardinality(S) <= 1
                             /\ \A p \in S : p < remoteTotal /\ p < chunk_size }
    /\ remotePlaylists \in { << >>, << << "a", "b" >> >> }
    /\ playlistIds = {}
    /\ playlistNames = { << "a", "b" >> }
    /\ non_interactive = FALSE
    /\ cache = [k \in PlaylistIds |-> NoEntry]
    /\ invalidated = {}
    /\ processed_track_sets = [k \in PlaylistIds |-> NoEntry]
    /\ track_retrieval_lock = NoThread
    /\ playlists_cache = NoEntry
    /\ expired = {}
    /\ playlist_tracks_cache = [n \in PlaylistNames |-> NoEntry]
    /\ op = [t \in Callers |-> "none"]
    /\ playlist_name = [t \in Callers |-> << >>]
    /\ playlists = [t \in Callers |-> << >>]
    /\ pc = [t \in Callers |-> IF t = 1 THEN "idle" ELSE "done"]
    /\ playlist_id = [t \in Callers |-> "p1"]
    /\ refresh = [t \in Callers |-> FALSE]
    /\ total = [t \in Callers |-> NoTotal]
    /\ tracklist = [t \in Callers |-> << >>]
    /\ futures = [t \in Callers |-> NoFutures]
    /\ collected = [t \in Callers |-> {}]
    /\ result = [t \in Callers |-> Returned(<< >>)]
    /\ listCalls = [t \in Callers |-> NoCalls]
    /\ fetchCount = 0
    /\ entryAtCall = [t \in Callers |-> NoEntry]
    /\ entryAtFetch = [t \in Callers |-> NoEntry]
    /\ raised = [t \in Callers |-> FALSE]
    /\ afterReturn = [t \in Callers |-> FALSE]
    /\ afterInvalidate = [t \in Callers |-> FALSE]
    /\ clean = TRUE

\* the request of kind k is made
Lookup(t, k) == lookups' = [lookups EXCEPT ![t] = @ \cup {k}]

\* lines 902-912: a thread calls find_missing_and_extra_tracks with an artist
\* string that splits into names, which calls get_playlist_tracks
find_missing_and_extra_tracks(t, names, name) ==
    /\ enter_get_playlist_tracks(t, name, "find_missing_and_extra_tracks")
    /\ artist_names' = [artist_names EXCEPT ![t] = names]
    /\ UNCHANGED << searchVars, findVars, resetVars, mutateVars, matchVars, legacyVars, worldVars, catalogVars, playlists_cache,
                    playlist_tracks_cache, expired, playlists, refresh, total, tracklist,
                    futures, collected, listCalls, raised, playlist_tracks,
                    all_album_ids, all_tracks, unique_missing, non_artist_tracks,
                    artist_index, artist_tracks, target_artist_ids, lookups,
                    failed_lookups, discography >>

\* the comparison that searches the artist whatever the playlist holds
compare_always(t) ==
    /\ pc[t] = "compare"
    /\ playlist_tracks' = [playlist_tracks EXCEPT ![t] = result[t].val]
    /\ artist_index' = [artist_index EXCEPT ![t] = 1]
    /\ artist_tracks' = [artist_tracks EXCEPT ![t] = << >>]
    /\ discography' = [discography EXCEPT ![t] = << >>]
    /\ Goto(t, "artist_search")
    /\ UNCHANGED << searchVars, findVars, resetVars, mutateVars, matchVars, legacyVars, worldVars, catalogVars, fetchVars, futures,
                    collected, raised, all_album_ids, all_tracks, unique_missing,
                    non_artist_tracks, artist_names, target_artist_ids, lookups,
                    failed_lookups >>

\* lines 912-923: get_playlist_tracks has returned
compare(t) ==
    /\ pc[t] = "compare"
    /\ playlist_tracks' = [playlist_tracks EXCEPT ![t] = result[t].val]
    /\ artist_index' = [artist_index EXCEPT ![t] = 1]
    /\ artist_tracks' = [artist_tracks EXCEPT ![t] = << >>]
    /\ discography' = [discography EXCEPT ![t] = << >>]
    /\ IF result[t].val = << >>
         THEN Return(t, Comparison(<< >>, << >>))
         ELSE Goto(t, "artist_search")
    /\ UNCHANGED << searchVars, findVars, resetVars, mutateVars, matchVars, legacyVars, worldVars, catalogVars, fetchVars, futures,
                    collected, raised, all_album_ids, all_tracks, unique_missing,
                    non_artist_tracks, artist_names, target_artist_ids, lookups,
                    failed_lookups >>

\* lines 925-952: the discography is there; without tracks the comparison is
\* empty, else the missing tracks are computed and the extra tracks are next
after_artist_tracks(t, tracks) ==
    /\ artist_tracks' = [artist_tracks EXCEPT ![t] = tracks]
    /\ artist_index' = [artist_index EXCEPT ![t] = 1]
    /\ IF tracks = << >>
         THEN /\ Return(t, Comparison(<< >>, << >>))
              /\ UNCHANGED unique_missing
         ELSE /\ unique_missing' = [unique_missing EXCEPT ![t] =
                    Unique(missing_tracks(tracks, playlist_tracks[t]))]
              /\ Goto(t, "extra_search")

\* the loop over the aliases that ends at an alias without tracks
leave_get_artist_all_tracks_strict(t, tracks) ==
    /\ discography' = [discography EXCEPT ![t] = @ \o tracks]
    /\ IF Len(artist_names[t]) = 1 \/ tracks = << >>
         THEN after_artist_tracks(t, tracks)
         ELSE LET all == artist_tracks[t] \o tracks
              IN  IF artist_index[t] < Len(artist_names[t])
                    THEN /\ artist_tracks' = [artist_tracks EXCEPT ![t] = all]
                         /\ artist_index' = [artist_index EXCEPT ![t] = @ + 1]
                         /\ Goto(t, "artist_search")
                         /\ UNCHANGED unique_missing
                    ELSE after_artist_tracks(t, Unique(all))

\* lines 762, 775-799, 920-923: get_artist_all_tracks hands tracks to its
\* caller: find_missing_and_extra_tracks for one name, else the loop of
\* get_artist_all_tracks_multiple, which goes on to the next alias or removes
\* the duplicates and returns
leave_get_artist_all_tracks(t, tracks) ==
    /\ discography' = [discography EXCEPT ![t] = @ \o tracks]
    /\ IF Len(artist_names[t]) = 1
         THEN after_artist_tracks(t, tracks)
         ELSE LET all == artist_tracks[t] \o tracks
              IN  IF artist_index[t] < Len(artist_names[t])
                    THEN /\ artist_tracks' = [artist_tracks EXCEPT ![t] = all]
                         /\ artist_index' = [artist_index EXCEPT ![t] = @ + 1]
                         /\ Goto(t, "artist_search")
                         /\ UNCHANGED unique_missing
                    ELSE after_artist_tracks(t, Unique(all))

\* the search that fails the comparison at an alias without artist
artist_search_strict(t, out) ==
    /\ pc[t] = "artist_search"
    /\ Lookup(t, "search")
    /\ all_album_ids' = [all_album_ids EXCEPT ![t] = << >>]
    /\ all_tracks' = [all_tracks EXCEPT ![t] = << >>]
    /\ IF out = "raise"
         THEN /\ Return(t, Raised)
              /\ raised' = [raised EXCEPT ![t] = TRUE]
              /\ UNCHANGED << artist_tracks, artist_index, unique_missing, discography >>
         ELSE /\ UNCHANGED raised
              /\ IF artist_names[t][artist_index[t]] \in remoteArtists
                   THEN /\ Goto(t, "artist_albums")
                        /\ UNCHANGED << artist_tracks, artist_index, unique_missing, discography >>
                   ELSE /\ Return(t, Raised)
                        /\ UNCHANGED << artist_tracks, artist_index, unique_missing, discography >>
    /\ UNCHANGED << searchVars, findVars, resetVars, mutateVars, matchVars, legacyVars, worldVars, catalogVars, fetchVars, futures,
                    collected, playlist_tracks, non_artist_tracks, artist_names,
                    target_artist_ids, failed_lookups >>

\* lines 636-655: get_artist_all_tracks searches the artist of the alias
artist_search(t, out) ==
    /\ pc[t] = "artist_search"
    /\ Lookup(t, "search")
    /\ all_album_ids' = [all_album_ids EXCEPT ![t] = << >>]
    /\ all_tracks' = [all_tracks EXCEPT ![t] = << >>]
    /\ IF out = "raise"
         THEN /\ Return(t, Raised)
              /\ raised' = [raised EXCEPT ![t] = TRUE]
              /\ UNCHANGED << artist_tracks, artist_index, unique_missing, discography >>
         ELSE /\ UNCHANGED raised
              /\ IF artist_names[t][artist_index[t]] \in remoteArtists
                   THEN /\ Goto(t, "artist_albums")
                        /\ UNCHANGED << artist_tracks, artist_index, unique_missing, discography >>
                   ELSE leave_get_artist_all_tracks(t, << >>)
    /\ UNCHANGED << searchVars, findVars, resetVars, mutateVars, matchVars, legacyVars, worldVars, catalogVars, fetchVars, futures,
                    collected, playlist_tracks, non_artist_tracks, artist_names,
                    target_artist_ids, failed_lookups >>

\* lines 661-680, 738-751: one page of the album listing; after the last page
\* the batches are handed to the pool
artist_albums(t, out) ==
    /\ pc[t] = "artist_albums"
    /\ Lookup(t, "artist_albums")
    /\ IF out = "raise"
         THEN /\ Return(t, Raised)
              /\ raised' = [raised EXCEPT ![t] = TRUE]
              /\ UNCHANGED << all_album_ids, futures, artist_tracks,
                              artist_index, unique_missing, discography >>
         ELSE LET artist == artist_names[t][artist_index[t]]
                  ids == all_album_ids[t] \o AlbumPage(artist, Len(all_album_ids[t]))
              IN  /\ all_album_ids' = [all_album_ids EXCEPT ![t] = ids]
                  /\ UNCHANGED raised
                  /\ IF Len(ids) < Len(AlbumsOf(artist))
                       THEN /\ Goto(t, "artist_albums")
                            /\ UNCHANGED << futures, artist_tracks, artist_index,
                                            unique_missing, discography >>
                       ELSE IF ids = << >>
                         THEN /\ leave_get_artist_all_tracks(t, << >>)
                              /\ UNCHANGED futures
                         ELSE /\ Goto(t, "album_batches")
                              /\ futures' = [futures EXCEPT ![t] =
                                    [i \in BatchStarts(Len(ids)) |-> "pending"]]
                              /\ UNCHANGED << artist_tracks, artist_index,
                                              unique_missing, discography >>
    /\ UNCHANGED << searchVars, findVars, resetVars, mutateVars, matchVars, legacyVars, worldVars, catalogVars, fetchVars, collected,
                    playlist_tracks, all_tracks, non_artist_tracks, artist_names,
                    target_artist_ids, failed_lookups >>

\* lines 688-736, 753-759: the task of the batch at index i runs and its
\* tracks are collected; a batch whose request failed yields no tracks
process_album_batch(t, i, out) ==
    /\ pc[t] = "album_batches"
    /\ i \in DOMAIN futures[t]
    /\ futures[t][i] = "pending"
    /\ Lookup(t, "albums")
    /\ raised' = [raised EXCEPT ![t] = @ \/ out = "raise"]
    /\ futures' = [futures EXCEPT ![t][i] = out]
    /\ all_tracks' = [all_tracks EXCEPT ![t] =
          IF out = "ok" THEN @ \o Batch(all_album_ids[t], i) ELSE @]
    /\ UNCHANGED << searchVars, findVars, resetVars, mutateVars, matchVars, legacyVars, worldVars, catalogVars, fetchVars, collected, pc,
                    result, playlist_tracks, all_album_ids, unique_missing,
                    non_artist_tracks, artist_names, artist_index, artist_tracks,
                    target_artist_ids, failed_lookups, discography >>

\* the return of get_artist_all_tracks that waits for no batch task
compute_missing_early(t) ==
    /\ pc[t] = "album_batches"
    /\ leave_get_artist_all_tracks(t, all_tracks[t])
    /\ UNCHANGED << searchVars, findVars, resetVars, mutateVars, matchVars, legacyVars, worldVars, catalogVars, fetchVars, futures,
                    collected, raised, playlist_tracks, all_album_ids, all_tracks,
                    non_artist_tracks, artist_names, target_artist_ids, lookups,
                    failed_lookups >>

\* lines 761-762: every batch task has ended and get_artist_all_tracks
\* returns all_tracks
compute_missing(t) ==
    /\ pc[t] = "album_batches"
    /\ \A i \in DOMAIN futures[t] : futures[t][i] # "pending"
    /\ leave_get_artist_all_tracks(t, all_tracks[t])
    /\ UNCHANGED << searchVars, findVars, resetVars, mutateVars, matchVars, legacyVars, worldVars, catalogVars, fetchVars, futures,
                    collected, raised, playlist_tracks, all_album_ids, all_tracks,
                    non_artist_tracks, artist_names, target_artist_ids, lookups,
                    failed_lookups >>

\* lines 963-981: both lists are sorted and returned
return_comparison(t, extra) ==
    Return(t, Comparison(SortByDate(unique_missing[t]), SortByName(extra)))

\* lines 395-424, 496-506, 522-556, 608-620: find_non_artist_tracks and
\* find_non_artist_tracks_multiple read the cached playlist tracks and search
\* the artist of each alias; after the last search the track batches are
\* handed to the pool
extra_search(t, out) ==
    /\ pc[t] = "extra_search"
    /\ non_artist_tracks' = [non_artist_tracks EXCEPT ![t] = << >>]
    /\ failed_lookups' = [failed_lookups EXCEPT ![t] = {}]
    /\ LET tracks == playlist_tracks_cache[playlist_name[t]].val
           name == artist_names[t][artist_index[t]]
           ids == (IF artist_index[t] = 1 THEN {} ELSE target_artist_ids[t])
                    \cup (IF name \in remoteArtists THEN {name} ELSE {})
       IN  IF tracks = << >>
             THEN /\ return_comparison(t, << >>)
                  /\ UNCHANGED << futures, raised, lookups, artist_index,
                                  target_artist_ids >>
             ELSE /\ Lookup(t, "search")
                  /\ IF out = "raise"
                       THEN /\ Return(t, Raised)
                            /\ raised' = [raised EXCEPT ![t] = TRUE]
                            /\ UNCHANGED << futures, artist_index, target_artist_ids >>
                       ELSE /\ UNCHANGED raised
                            /\ target_artist_ids' = [target_artist_ids EXCEPT ![t] = ids]
                            /\ IF artist_index[t] < Len(artist_names[t])
                                 THEN /\ artist_index' = [artist_index EXCEPT ![t] = @ + 1]
                                      /\ Goto(t, "extra_search")
                                      /\ UNCHANGED futures
                                 ELSE /\ UNCHANGED artist_index
                                      /\ IF ids = {}
                                           THEN /\ return_comparison(t, << >>)
                                                /\ UNCHANGED futures
                                           ELSE /\ Goto(t, "track_batches")
                                                /\ futures' = [futures EXCEPT ![t] =
                                                      [i \in BatchStarts(Len(tracks)) |-> "pending"]]
    /\ UNCHANGED << searchVars, findVars, resetVars, mutateVars, matchVars, legacyVars, worldVars, catalogVars, fetchVars, collected,
                    playlist_tracks, all_album_ids, all_tracks, unique_missing,
                    artist_names, artist_tracks, discography >>

\* the indices j of the batch at index i of tracks whose track has a detail
\* by none of the targets and whose lookup did not fail
NonArtist(tracks, i, targets, failed) ==
    SelectSeq([j \in 1..Len(Batch(tracks, i)) |-> j],
              LAMBDA j : /\ j \notin failed
                         /\ tracks[i + j] \notin remoteNoDetail
                         /\ NotByTarget(tracks[i + j], targets))

\* the track batch that takes the entry of the start of the list for each
\* track it finds
BatchTracksFromStart(tracks, i, kept) == [k \in 1..Len(kept) |-> tracks[kept[k]]]

\* lines 447, 475, 588: original_track = playlist_tracks[start_idx + j]
BatchTracks(tracks, i, kept) == [k \in 1..Len(kept) |-> tracks[i + kept[k]]]

\* the batch failure handled with single lookups whatever the number of names
Fallback_always(names) == TRUE

\* lines 463-494, 604-606: a failed batch is looked up track by track for one
\* artist name, and yields no tracks for several
Fallback(names) == Len(names) = 1

\* lines 426-494, 508-514, 558-606, 622-628: the task of the track batch at
\* index i runs and its tracks are collected; failed are the tracks of the
\* batch whose single lookup fails after the batch request has
process_track_batch(t, i, out, failed) ==
    /\ pc[t] = "track_batches"
    /\ i \in DOMAIN futures[t]
    /\ futures[t][i] = "pending"
    /\ failed \subseteq 1..batch_size
    /\ (out = "ok" \/ ~Fallback(artist_names[t])) => failed = {}
    /\ LET tracks == playlist_tracks_cache[playlist_name[t]].val
           kept == IF out = "ok" \/ Fallback(artist_names[t])
                     THEN NonArtist(tracks, i, target_artist_ids[t], failed)
                     ELSE << >>
       IN  /\ \A j \in failed : j <= Len(Batch(tracks, i))
           /\ non_artist_tracks' = [non_artist_tracks EXCEPT ![t] =
                 @ \o BatchTracks(tracks, i, kept)]
           /\ failed_lookups' = [failed_lookups EXCEPT ![t] =
                 @ \cup { i + j : j \in failed }]
    /\ lookups' = [lookups EXCEPT ![t] =
          @ \cup {"tracks"}
            \cup (IF out = "raise" /\ Fallback(artist_names[t]) THEN {"track"} ELSE {})]
    /\ futures' = [futures EXCEPT ![t][i] = out]
    /\ UNCHANGED << searchVars, findVars, resetVars, mutateVars, matchVars, legacyVars, worldVars, catalogVars, fetchVars, collected,
                    raised, pc, result, playlist_tracks, all_album_ids,
                    all_tracks, unique_missing, artist_names, artist_index,
                    artist_tracks, target_artist_ids, discography >>

\* lines 516, 630, 962-981: every batch task has ended and the extra tracks
\* are returned
extra_done(t) ==
    /\ pc[t] = "track_batches"
    /\ \A i \in DOMAIN futures[t] : futures[t][i] # "pending"
    /\ return_comparison(t, non_artist_tracks[t])
    /\ UNCHANGED << searchVars, findVars, resetVars, mutateVars, matchVars, legacyVars, worldVars, catalogVars, fetchVars, futures,
                    collected, raised, playlist_tracks, all_album_ids, all_tracks,
                    unique_missing, non_artist_tracks, artist_names, artist_index,
                    artist_tracks, target_artist_ids, lookups, failed_lookups, discography >>

\* lines 138, 306, 505, 618, 747 and spotifyhelpers line 320: the max_workers
\* of the ThreadPoolExecutor the thread runs its tasks in at its position;
\* one artist name has its track batches looked up by find_non_artist_tracks,
\* several by find_non_artist_tracks_multiple
pool_workers(t) ==
    CASE pc[t] \in ClientPools \cup ClientShutdowns -> client_max_workers
      [] pc[t] = "album_batches" -> album_max_workers
      [] pc[t] = "track_batches" ->
            IF Len(artist_names[t]) = 1 THEN track_max_workers
                                        ELSE track_multiple_max_workers
      [] OTHER -> max_workers

NextReconcile ==
    \/ \E t \in Callers, names \in ArtistStrings, name \in PlaylistNames :
          find_missing_and_extra_tracks(t, names, name)
    \/ \E t \in Callers : find_playlist(t)
    \/ \E t \in Callers, out \in ClientOutcomes : playlists_first_page(t, out)
    \/ \E t \in Callers, out \in ClientOutcomes : tracks_first_page(t, out)
    \/ \E t \in Callers, o \in PageOffsets : client_chunk_start(t, o)
    \/ \E t \in Callers, o \in PageOffsets, out \in ClientOutcomes :
          client_chunk_done(t, o, out)
    \/ \E t \in Callers, o \in PageOffsets : client_as_completed(t, o)
    \/ \E t \in Callers : client_executor_shutdown(t)
    \/ \E t \in Callers : playlists_finalize(t)
    \/ \E t \in Callers : tracks_finalize(t)
    \/ \E t \in Callers : compare(t)
    \/ \E t \in Callers, out \in ClientOutcomes : artist_search(t, out)
    \/ \E t \in Callers, out \in ClientOutcomes : artist_albums(t, out)
    \/ \E t \in Callers, i \in 0..(MaxAlbums - 1), out \in ClientOutcomes :
          process_album_batch(t, i, out)
    \/ \E t \in Callers : compute_missing(t)
    \/ \E t \in Callers, out \in ClientOutcomes : extra_search(t, out)
    \/ \E t \in Callers, i \in Positions, out \in ClientOutcomes,
          failed \in SUBSET (1..batch_size) :
          process_track_batch(t, i, out, failed)
    \/ \E t \in Callers : extra_done(t)

SpecReconcile == InitReconcile /\ [][NextReconcile]_vars

\* the client before a call of find_missing_and_extra_tracks that is not its
\* first call: the playlists can be cached, as they are now or from a time
\* when the user had none, and with them the tracks of the playlist, as a
\* call of get_playlist_tracks whose pages ended in order has cached them
InitReconcileWarm ==
    /\ remoteAlbums \in 0..MaxAlbums
    /\ remoteArtists \in SUBSET {"A", "B"}
    /\ remoteTotal \in 0..MaxTotal
    /\ remoteNoDetail \in { S \in SUBSET Positions :
                              /\ Cardinality(S) <= 1
                              /\ \A p \in S : p < remoteTotal }
    /\ InitReconcileVars
    /\ InitSearchVars
    /\ InitFindVars
    /\ InitResetVars
    /\ InitMatchVars
    /\ InitMutateVars
    /\ remoteSkipped \in { S \in SUBSET Positions :
                             /\ Cardinality(S) <= 1
                             /\ \A p \in S : p < remoteTotal /\ p < chunk_size }
    /\ remotePlaylists \in { << >>, << << "a", "b" >> >> }
    /\ playlistIds = {}
    /\ playlistNames = { << "a", "b" >> }
    /\ non_interactive = FALSE
    /\ cache = [k \in PlaylistIds |-> NoEntry]
    /\ invalidated = {}
    /\ processed_track_sets = [k \in PlaylistIds |-> NoEntry]
    /\ track_retrieval_lock = NoThread
    /\ playlists_cache \in
          { NoEntry, Entry(<< >>),
            Entry([i \in 1..Len(remotePlaylists) |-> i]) }
    /\ expired = {}
    /\ playlist_tracks_cache \in
          IF remotePlaylists # << >> /\ playlists_cache = Entry(<< 1 >>)
            THEN { [n \in PlaylistNames |-> NoEntry],
                   [n \in PlaylistNames |-> IF n = << "a", "b" >>
                                              THEN Entry(PageItems(0, remoteTotal))
                                              ELSE NoEntry] }
            ELSE { [n \in PlaylistNames |-> NoEntry] }
    /\ op = [t \in Callers |-> "none"]
    /\ playlist_name = [t \in Callers |-> << >>]
    /\ playlists = [t \in Callers |-> << >>]
    /\ pc = [t \in Callers |-> IF t = 1 THEN "idle" ELSE "done"]
    /\ playlist_id = [t \in Callers |-> "p1"]
    /\ refresh = [t \in Callers |-> FALSE]
    /\ total = [t \in Callers |-> NoTotal]
    /\ tracklist = [t \in Callers |-> << >>]
    /\ futures = [t \in Callers |-> NoFutures]
    /\ collected = [t \in Callers |-> {}]
    /\ result = [t \in Callers |-> Returned(<< >>)]
    /\ listCalls = [t \in Callers |-> NoCalls]
    /\ fetchCount = 0
    /\ entryAtCall = [t \in Callers |-> NoEntry]
    /\ entryAtFetch = [t \in Callers |-> NoEntry]
    /\ raised = [t \in Callers |-> FALSE]
    /\ afterReturn = [t \in Callers |-> FALSE]
    /\ afterInvalidate = [t \in Callers |-> FALSE]
    /\ clean = TRUE

SpecReconcileWarm == InitReconcileWarm /\ [][NextReconcile]_vars

(* ---------------------------- track_utils ------------------------------ *)

\* the characters of track names; the words feat and with count as one
\* character each, ndash is the en dash
Space == {" "}
Dashes == {"-", "ndash"}
Openers == {"(", "["}
Closers == {")", "]", "}"}
FeatWords == {"feat", "Feat"}
WithWords == {"with"}

\* number of characters of S the string s begins with, and ends with
LeadCount(s, S) ==
    CHOOSE n \in 0..Len(s) :
        /\ \A i \in 1..n : s[i] \in S
        /\ n = Len(s) \/ s[n + 1] \notin S
TrailCount(s, S) ==
    CHOOSE n \in 0..Len(s) :
        /\ \A i \in 1..n : s[Len(s) + 1 - i] \in S
        /\ n = Len(s) \/ s[Len(s) - n] \notin S
lstrip(s, S) == SubSeq(s, LeadCount(s, S) + 1, Len(s))
rstrip(s, S) == SubSeq(s, 1, Len(s) - TrailCount(s, S))

\* str.strip()
strip(s) == lstrip(rstrip(s, Space), Space)

Least(I) == CHOOSE i \in I : \A j \in I : i <= j

\* the index of the first character after the whitespace that follows index i
AfterSpace(s, i) == i + 1 + LeadCount(SubSeq(s, i + 1, Len(s)), Space)

\* lines 20-25: the index at which a match of
\* [\[(]\s*(feat\.?|with\.?)[^])}]*[])}] that begins at index i ends, 0 for
\* no match
BracketedEnd(s, i) ==
    IF s[i] \notin Openers THEN 0
    ELSE LET j == AfterSpace(s, i)
             ks == { k \in (j + 1)..Len(s) : s[k] \in Closers }
         IN  IF j > Len(s) THEN 0
             ELSE IF s[j] \notin FeatWords \cup WithWords THEN 0
             ELSE IF ks = {} THEN 0 ELSE Least(ks)

\* lines 20-25: re.sub of every such match from index i on
RECURSIVE RemoveBracketed(_, _)
RemoveBracketed(s, i) ==
    IF i > Len(s) THEN << >>
    ELSE IF BracketedEnd(s, i) > 0
      THEN RemoveBracketed(s, BracketedEnd(s, i) + 1)
      ELSE << s[i] >> \o RemoveBracketed(s, i + 1)

\* what is left of s before the least index of I
CutAt(s, I) == IF I = {} THEN s ELSE SubSeq(s, 1, Least(I) - 1)

\* lines 28-30: the indices at which (feat\.|with\.)\s begins
FeatSuffixes(s) ==
    { i \in 1..(Len(s) - 2) :
        /\ s[i] \in FeatWords \cup WithWords
        /\ s[i + 1] = "."
        /\ s[i + 2] \in Space }

\* lines 33-35: the indices at which -\s*(with\s|feat\.?\s) begins
DashSuffixes(s) ==
    { i \in 1..Len(s) :
        /\ s[i] = "-"
        /\ LET j == AfterSpace(s, i)
           IN  /\ j < Len(s)
               /\ \/ s[j] \in FeatWords \cup WithWords /\ s[j + 1] \in Space
                  \/ /\ s[j] \in FeatWords
                     /\ s[j + 1] = "."
                     /\ j + 1 < Len(s)
                     /\ s[j + 2] \in Space }

\* line 38: re.sub of \s*-\s*$
RemoveTrailingDash(s) ==
    LET r == rstrip(s, Space)
    IN  IF r # << >> /\ r[Len(r)] = "-"
          THEN rstrip(SubSeq(r, 1, Len(r) - 1), Space)
          ELSE s

\* track_utils.clean_name: the six substitutions, each followed by strip()
clean_name(song_name) ==
    LET s1 == strip(RemoveBracketed(song_name, 1))
        s2 == strip(CutAt(s1, FeatSuffixes(s1)))
        s3 == strip(CutAt(s2, DashSuffixes(s2)))
        s4 == strip(RemoveTrailingDash(s3))
        s5 == strip(rstrip(s4, Space \cup Dashes))
    IN  strip(lstrip(s5, Space \cup Dashes))

\* names of remote tracks: one title written in the ways the remote writes a
\* title, and other titles
RawNames ==
    { << "a", "b" >>,
      << "A", "B" >>,
      << "a", "b", " ", "(", "feat", ".", " ", "a", ")" >>,
      << "a", "b", " ", "[", "with", " ", "a", "]" >>,
      << "A", "b", " ", "Feat", ".", " ", "a" >>,
      << "a", "b", " ", "-", " ", "with", " ", "a" >>,
      << "a", "b", " ", "-" >>,
      << "ndash", " ", "a", "b" >>,
      << "a", "b", " ", "(", "a", ")" >>,
      << "a", "b", " ", "(", "Feat", " ", "a" >>,
      << "b" >> }

\* durations of remote tracks in milliseconds: the seconds around one minute,
\* at the beginning and at the end of the second
RawDurations ==
    { 1000 * s + ms : s \in (60 - MaxSpread)..(60 + MaxSpread), ms \in {0, 999} }

\* the two tracks of remote responses that are compared: the first of one
\* album, the second of the same album or of another album and artist
RawTracks ==
    { r \in [1..2 -> [name : RawNames, duration_ms : RawDurations,
                      album : {"x", "y"}, artists : {{"A"}, {"B"}}]] :
        /\ r[1].album = "x" /\ r[1].artists = {"A"}
        /\ r[1].duration_ms \div 1000 \in {59, 60}
        /\ r[2].album = "x" <=> r[2].artists = {"A"} }

\* the ordered pairs of tracks is_track_match is called with
TrackPairs == { << 1, 2 >>, << 2, 1 >>, << 1, 1 >>, << 2, 2 >> }

\* no thread calls the helpers or the client
InitIdle ==
    /\ remoteAlbums = 0
    /\ remoteArtists = {}
    /\ remoteNoDetail = {}
    /\ InitReconcileVars
    /\ InitResetVars
    /\ InitMutateVars
    /\ remoteTotal = 0
    /\ remoteSkipped = {}
    /\ remotePlaylists = << >>
    /\ playlistIds = {}
    /\ playlistNames = {}
    /\ non_interactive = FALSE
    /\ cache = [k \in PlaylistIds |-> NoEntry]
    /\ invalidated = {}
    /\ processed_track_sets = [k \in PlaylistIds |-> NoEntry]
    /\ track_retrieval_lock = NoThread
    /\ playlists_cache = NoEntry
    /\ expired = {}
    /\ playlist_tracks_cache = [n \in PlaylistNames |-> NoEntry]
    /\ op = [t \in Callers |-> "none"]
    /\ playlist_name = [t \in Callers |-> << >>]
    /\ playlists = [t \in Callers |-> << >>]
    /\ pc = [t \in Callers |-> "done"]
    /\ playlist_id = [t \in Callers |-> "p1"]
    /\ refresh = [t \in Callers |-> FALSE]
    /\ total = [t \in Callers |-> NoTotal]
    /\ tracklist = [t \in Callers |-> << >>]
    /\ futures = [t \in Callers |-> NoFutures]
    /\ collected = [t \in Callers |-> {}]
    /\ result = [t \in Callers |-> Returned(<< >>)]
    /\ listCalls = [t \in Callers |-> NoCalls]
    /\ fetchCount = 0
    /\ entryAtCall = [t \in Callers |-> NoEntry]
    /\ entryAtFetch = [t \in Callers |-> NoEntry]
    /\ raised = [t \in Callers |-> FALSE]
    /\ afterReturn = [t \in Callers |-> FALSE]
    /\ afterInvalidate = [t \in Callers |-> FALSE]
    /\ clean = TRUE

InitMatch ==
    /\ raw_tracks \in RawTracks
    /\ track_dicts = NoTracks
    /\ matched = NoTracks
    /\ track_name = NoneName
    /\ cleaned = NotCalled
    /\ InitSearchVars
    /\ InitFindVars
    /\ InitIdle

\* lines 246-252, 713-725 of spotify_client.py: the track dict of track i of
\* a remote response
build_track(i) ==
    /\ i \notin DOMAIN track_dicts
    /\ track_dicts' = [k \in DOMAIN track_dicts \cup {i} |->
          IF k # i THEN track_dicts[k]
          ELSE [name |-> clean_name(raw_tracks[i].name),
                duration |-> format_duration(raw_tracks[i].duration_ms),
                album |-> raw_tracks[i].album,
                artists |-> raw_tracks[i].artists]]
    /\ UNCHANGED << searchVars, findVars, resetVars, mutateVars, reconcileVars, clientVars, remoteVars, legacyVars,
                    playlistNames, pc, refresh, total, tracklist, futures,
                    collected, result, listCalls, entryAtCall, raised,
                    raw_tracks, matched, track_name, cleaned >>

\* lines 358, 937 of spotify_client.py: is_track_match is called with the
\* track dicts i and j
call_is_track_match(i, j) ==
    /\ {i, j} \subseteq DOMAIN track_dicts
    /\ << i, j >> \notin DOMAIN matched
    /\ matched' = [p \in DOMAIN matched \cup {<< i, j >>} |->
          IF p # << i, j >> THEN matched[p]
          ELSE is_track_match(track_dicts[i], track_dicts[j])]
    /\ UNCHANGED << searchVars, findVars, resetVars, mutateVars, reconcileVars, clientVars, remoteVars, legacyVars,
                    playlistNames, pc, refresh, total, tracklist, futures,
                    collected, result, listCalls, entryAtCall, raised,
                    raw_tracks, track_dicts, track_name, cleaned >>

NextMatch ==
    \/ \E i \in 1..2 : build_track(i)
    \/ \E p \in TrackPairs : call_is_track_match(p[1], p[2])

SpecMatch == InitMatch /\ [][NextMatch]_vars

\* the characters of the names clean_name is called with
NameChars == {"a", " ", "-", "(", ")", "feat", "."}

\* the arguments of clean_name: every string of at most MaxNameLen
\* characters, and None for a track the remote gives no name
TrackNames ==
    { [type |-> "str", val |-> n] :
        n \in UNION { [1..k -> NameChars] : k \in 0..MaxNameLen } }
    \cup {NoneName}

InitNormalize ==
    /\ raw_tracks = NoTracks
    /\ track_dicts = NoTracks
    /\ matched = NoTracks
    /\ track_name \in TrackNames
    /\ cleaned = NotCalled
    /\ InitSearchVars
    /\ InitFindVars
    /\ InitIdle

\* the call of clean_name that returns its argument when re.sub raises
clean_name_call_fallback ==
    /\ ~cleaned.called
    /\ cleaned' = [called |-> TRUE, error |-> FALSE,
                   val |-> IF track_name.type = "str"
                             THEN clean_name(track_name.val)
                             ELSE track_name.val]
    /\ UNCHANGED << searchVars, findVars, resetVars, mutateVars, reconcileVars, clientVars, remoteVars, legacyVars,
                    playlistNames, pc, refresh, total, tracklist, futures,
                    collected, result, listCalls, entryAtCall, raised,
                    raw_tracks, track_dicts, matched, track_name >>

\* track_utils.py lines 13-49: clean_name(track_name); re.sub raises TypeError
\* for an argument that is no string, which lines 46-48 log and raise again
clean_name_call ==
    /\ ~cleaned.called
    /\ cleaned' = IF track_name.type = "str"
                    THEN [called |-> TRUE, error |-> FALSE,
                          val |-> clean_name(track_name.val)]
                    ELSE [called |-> TRUE, error |-> TRUE, val |-> << >>]
    /\ UNCHANGED << searchVars, findVars, resetVars, mutateVars, reconcileVars, clientVars, remoteVars, legacyVars,
                    playlistNames, pc, refresh, total, tracklist, futures,
                    collected, result, listCalls, entryAtCall, raised,
                    raw_tracks, track_dicts, matched, track_name >>

NextNormalize == clean_name_call

SpecNormalize == InitNormalize /\ [][NextNormalize]_vars

(* ------------- add_tracks_to_playlist, remove_tracks_from_playlist ------- *)

\* track URIs, and the lists of URIs a caller passes
Uris == 0..(MaxUris - 1)
UriLists == UNION { [1..k -> Uris] : k \in 0..MaxUris }

\* the remote playlist of n items: the last URI is on no playlist, and a
\* playlist of MaxUris items or more holds a track twice
RemoteItems(n) == [i \in 1..n |-> (i - 1) % (MaxUris - 1)]

\* the playlist names a caller passes: the name the tracks are cached under,
\* the same name in capitals, and the name of no playlist
MutationNames == { << "a", "b" >>, << "A", "B" >>, << "a" >> }

InitMutate ==
    /\ remoteAlbums = 0
    /\ remoteArtists = {}
    /\ remoteNoDetail = {}
    /\ InitReconcileVars
    /\ InitSearchVars
    /\ InitFindVars
    /\ InitResetVars
    /\ InitMatchVars
    /\ remoteTotal \in 0..MaxTotal
    /\ remoteSkipped = {}
    /\ remotePlaylists = << << "a", "b" >> >>
    /\ playlistIds = {}
    /\ playlistNames = MutationNames
    /\ non_interactive = FALSE
    /\ cache = [k \in PlaylistIds |-> NoEntry]
    /\ invalidated = {}
    /\ processed_track_sets = [k \in PlaylistIds |-> NoEntry]
    /\ track_retrieval_lock = NoThread
    /\ playlists_cache = Entry(<< 1 >>)
    /\ expired = {}
    /\ playlist_tracks_cache \in
          { [n \in PlaylistNames |-> NoEntry],
            [n \in PlaylistNames |-> IF n = << "a", "b" >>
                                       THEN Entry(RemoteItems(remoteTotal))
                                       ELSE NoEntry] }
    /\ op = [t \in Callers |-> "none"]
    /\ playlist_name = [t \in Callers |-> << >>]
    /\ playlists = [t \in Callers |-> << >>]
    /\ pc = [t \in Callers |-> IF t = 1 THEN "idle" ELSE "done"]
    /\ playlist_id = [t \in Callers |-> "p1"]
    /\ refresh = [t \in Callers |-> FALSE]
    /\ total = [t \in Callers |-> NoTotal]
    /\ tracklist = [t \in Callers |-> << >>]
    /\ futures = [t \in Callers |-> NoFutures]
    /\ collected = [t \in Callers |-> {}]
    /\ result = [t \in Callers |-> Returned(<< >>)]
    /\ listCalls = [t \in Callers |-> NoCalls]
    /\ fetchCount = 0
    /\ entryAtCall = [t \in Callers |-> NoEntry]
    /\ entryAtFetch = [t \in Callers |-> NoEntry]
    /\ raised = [t \in Callers |-> FALSE]
    /\ afterReturn = [t \in Callers |-> FALSE]
    /\ afterInvalidate = [t \in Callers |-> FALSE]
    /\ clean = TRUE
    /\ remote_items = RemoteItems(remoteTotal)
    /\ track_uris = << >>
    /\ batch_start = 0
    /\ sent = << >>
    /\ mutation_ok = "none"

\* lines 990-1001, 856-867: the index of the first cached playlist whose name
\* equals name in lower case, 0 for none
PlaylistIdOf(name) ==
    LET m == { i \in 1..Len(playlists_cache.val) :
                 Lower(remotePlaylists[playlists_cache.val[i]]) = Lower(name) }
    IN  IF m = {} THEN 0 ELSE playlists_cache.val[Least(m)]

\* the batch that takes one URI more than batch = track_uris[i: i + 100]
MutationBatchOneMore(uris, i) ==
    SubSeq(uris, i + 1, Min(i + mutate_batch_size + 1, Len(uris)))

\* lines 1008-1009, 875-876: batch = track_uris[i: i + 100]
MutationBatch(uris, i) ==
    SubSeq(uris, i + 1, Min(i + mutate_batch_size, Len(uris)))

\* lines 889-894, 836-840: the cached tracks whose URI is not among uris
Without(items, uris) ==
    SelectSeq(items, LAMBDA u : u \notin { uris[j] : j \in 1..Len(uris) })

\* what the call ends with: the boolean it returns
ReturnBool(t, b) ==
    /\ Return(t, Returned(<< >>))
    /\ mutation_ok' = b

\* lines 983-1001, 848-867: the call returns False without tracks; it gets
\* the playlists, which are cached, and returns False if none has the name
enter_mutation(t, method, name, uris) ==
    /\ pc[t] = "idle"
    /\ playlists_cache.present
    /\ name \in playlistNames
    /\ op' = [op EXCEPT ![t] = method]
    /\ playlist_name' = [playlist_name EXCEPT ![t] = name]
    /\ entryAtCall' = [entryAtCall EXCEPT ![t] = playlist_tracks_cache[name]]
    /\ track_uris' = uris
    /\ batch_start' = 0
    /\ sent' = << >>
    /\ IF uris = << >> \/ PlaylistIdOf(name) = 0
         THEN ReturnBool(t, "False")
         ELSE Goto(t, "mutate") /\ mutation_ok' = "none"
    /\ UNCHANGED << searchVars, findVars, resetVars, matchVars, reconcileVars, legacyVars, worldVars,
                    playlists_cache, playlist_tracks_cache, expired, playlists,
                    refresh, total, tracklist, futures, collected, listCalls,
                    raised, remote_items >>

add_tracks_to_playlist(t, name, uris) ==
    enter_mutation(t, "add_tracks_to_playlist", name, uris)

remove_tracks_from_playlist(t, name, uris) ==
    enter_mutation(t, "remove_tracks_from_playlist", name, uris)

\* lines 805-822: the single track is removed as the list of its URI
remove_track_from_playlist(t, name, uri) ==
    enter_mutation(t, "remove_track_from_playlist", name, << uri >>)

Removals == { "remove_tracks_from_playlist", "remove_track_from_playlist" }

\* the steps of a batch that leave the other variables alone
mutation_frame ==
    UNCHANGED << searchVars, findVars, resetVars, matchVars, reconcileVars, legacyVars, worldVars,
                 playlists_cache, expired, op, playlist_name, playlists,
                 refresh, total, tracklist, futures, collected, listCalls,
                 entryAtCall, raised, track_uris >>

\* lines 1003-1021: one pass of the loop over the batches of an addition. The
\* remote call raises, and the call returns False, or appends the batch to
\* the playlist; after the last batch the call returns True. No line of the
\* method writes self._playlist_tracks_cache.
playlist_add_items(t, out) ==
    LET batch == MutationBatch(track_uris, batch_start)
    IN  /\ pc[t] = "mutate"
        /\ op[t] = "add_tracks_to_playlist"
        /\ sent' = Append(sent, batch)
        /\ IF out = "raise"
             THEN /\ ReturnBool(t, "False")
                  /\ UNCHANGED << remote_items, batch_start >>
             ELSE /\ remote_items' = remote_items \o batch
                  /\ batch_start' = batch_start + mutate_batch_size
                  /\ IF batch_start' >= Len(track_uris)
                       THEN ReturnBool(t, "True")
                       ELSE Goto(t, "mutate") /\ mutation_ok' = mutation_ok
        /\ playlist_tracks_cache' = playlist_tracks_cache
        /\ mutation_frame

\* lines 869-900, 824-846: one pass of the loop over the batches of a
\* removal. The remote call raises, and the call returns False, or removes
\* every occurrence of the URIs of the batch; after the last batch the entry
\* cached under the name as the caller spelled it, if there is one, loses
\* the tracks of all URIs, and the call returns True.
playlist_remove_all_occurrences_of_items(t, out) ==
    LET batch == MutationBatch(track_uris, batch_start)
        name == playlist_name[t]
    IN  /\ pc[t] = "mutate"
        /\ op[t] \in Removals
        /\ sent' = Append(sent, batch)
        /\ IF out = "raise"
             THEN /\ ReturnBool(t, "False")
                  /\ UNCHANGED << remote_items, batch_start,
                                  playlist_tracks_cache >>
             ELSE /\ remote_items' = Without(remote_items, batch)
                  /\ batch_start' = batch_start + mutate_batch_size
                  /\ IF batch_start' >= Len(track_uris)
                       THEN /\ ReturnBool(t, "True")
                            /\ playlist_tracks_cache' =
                                 IF playlist_tracks_cache[name].present
                                   THEN [playlist_tracks_cache EXCEPT ![name] =
                                           Entry(Without(@.val, track_uris))]
                                   ELSE playlist_tracks_cache
                       ELSE /\ Goto(t, "mutate")
                            /\ UNCHANGED << mutation_ok,
                                            playlist_tracks_cache >>
        /\ mutation_frame

\* the lists of URIs are drawn for a thread that can call only
NextMutate ==
    \/ \E t \in Callers :
          /\ pc[t] = "idle"
          /\ \E name \in playlistNames, uris \in UriLists :
                add_tracks_to_playlist(t, name, uris)
    \/ \E t \in Callers :
          /\ pc[t] = "idle"
          /\ \E name \in playlistNames, uris \in UriLists :
                remove_tracks_from_playlist(t, name, uris)
    \/ \E t \in Callers, name \in playlistNames, uri \in Uris :
          remove_track_from_playlist(t, name, uri)
    \/ \E t \in Callers, out \in {"ok", "raise"} : playlist_add_items(t, out)
    \/ \E t \in Callers, out \in {"ok", "raise"} :
          playlist_remove_all_occurrences_of_items(t, out)

SpecMutate == InitMutate /\ [][NextMutate]_vars

(* --------------------------- the artist search --------------------------- *)

\* the characters of an artist string: a letter in both cases, the blank and
\* the separator of aliases
ArtistChars == {"a", "A", " ", "/"}

\* the artist strings find_missing_and_extra_tracks is called with
ArtistNames == UNION { [1..k -> ArtistChars] : k \in 0..MaxArtistLen }

\* the names of the artists of the remote catalog
SearchNames == { << "a" >>, << "A" >>, << "a", "a" >> }

\* results["artists"]["items"]: what the remote can answer to a search, the
\* names of the artists in search order; the id of an artist is its place
SearchItems == UNION { [1..k -> SearchNames] : k \in 0..MaxItems }

\* lines 642, 408: artist_id = None, no artist found
NoArtist == 0

\* line 907: artist_name.split("/")
RECURSIVE split(_)
split(s) ==
    IF \A i \in 1..Len(s) : s[i] # "/"
      THEN << s >>
      ELSE LET i == Least({ k \in 1..Len(s) : s[k] = "/" })
           IN  << SubSeq(s, 1, i - 1) >> \o split(SubSeq(s, i + 1, Len(s)))

\* line 907: [name.strip() for name in artist_name.split("/")]
stripped_names(s) == [i \in 1..Len(split(s)) |-> strip(split(s)[i])]

\* the loop that keeps the last item of the name
RECURSIVE last_match(_, _, _)
last_match(items, name, i) ==
    IF i > Len(items) THEN NoArtist
    ELSE LET later == last_match(items, name, i + 1)
         IN  IF later # NoArtist THEN later
             ELSE IF Lower(items[i]) = Lower(name) THEN i ELSE NoArtist

\* lines 645-651, 409-413, 541-545: the loop over the items from item i on
\* that stops at the first item whose name in lower case is the name in lower
\* case
RECURSIVE exact_match(_, _, _)
exact_match(items, name, i) ==
    IF i > Len(items) THEN NoArtist
    ELSE IF Lower(items[i]) = Lower(name) THEN i
    ELSE exact_match(items, name, i + 1)

InitResolve ==
    /\ search_items \in SearchItems
    /\ artist_name \in ArtistNames
    /\ aliases = << >>
    /\ artist_id = << >>
    /\ target_artist_id = << >>
    /\ InitFindVars
    /\ InitMatchVars
    /\ InitIdle

resolveFrame ==
    UNCHANGED << findVars, resetVars, mutateVars, matchVars, reconcileVars, clientVars,
                 remoteVars, legacyVars, playlistNames, pc, refresh, total,
                 tracklist, futures, collected, result, listCalls,
                 entryAtCall, raised, search_items, artist_name >>

\* line 907: find_missing_and_extra_tracks splits the artist string into
\* the stripped artist_names
split_artist_name ==
    /\ aliases = << >>
    /\ aliases' = stripped_names(artist_name)
    /\ UNCHANGED << artist_id, target_artist_id >>
    /\ resolveFrame

\* lines 636-655, 778-780: get_artist_all_tracks searches the next alias,
\* once for one name and in the loop of get_artist_all_tracks_multiple for
\* several, and takes the first item of that name
get_artist_all_tracks_search ==
    /\ Len(artist_id) < Len(aliases)
    /\ artist_id' = Append(artist_id,
          exact_match(search_items, aliases[Len(artist_id) + 1], 1))
    /\ UNCHANGED << aliases, target_artist_id >>
    /\ resolveFrame

\* lines 401-417, 955-956: find_non_artist_tracks searches the one name
find_non_artist_tracks_search ==
    /\ Len(aliases) = 1
    /\ Len(artist_id) = 1
    /\ target_artist_id = << >>
    /\ target_artist_id' = << exact_match(search_items, aliases[1], 1) >>
    /\ UNCHANGED << aliases, artist_id >>
    /\ resolveFrame

\* lines 528-549, 957-960: find_non_artist_tracks_multiple searches the next
\* alias, stripped once more; target_artist_ids of the source holds the
\* artists found, the entries here that are not NoArtist
find_non_artist_tracks_multiple_search ==
    /\ Len(aliases) > 1
    /\ Len(artist_id) = Len(aliases)
    /\ Len(target_artist_id) < Len(aliases)
    /\ target_artist_id' = Append(target_artist_id,
          exact_match(search_items, strip(aliases[Len(target_artist_id) + 1]), 1))
    /\ UNCHANGED << aliases, artist_id >>
    /\ resolveFrame

NextResolve ==
    \/ split_artist_name
    \/ get_artist_all_tracks_search
    \/ find_non_artist_tracks_search
    \/ find_non_artist_tracks_multiple_search

SpecResolve == InitResolve /\ [][NextResolve]_vars

(* --------------------------- the playlist of a name ---------------------- *)

\* the names of the playlists of the user and the names searched
FindNames == { << "a" >>, << "A" >>, << "b" >>, << "a", "b" >>, << "A", "B" >>,
               << "a", "b", "b" >> }

\* the lists of playlists get_user_playlists can have cached
FindLists == UNION { [1..k -> FindNames] : k \in 0..MaxPlaylists }

\* the client with its playlists cached in list order, before a playlist is
\* looked up by name
InitFind ==
    /\ remoteAlbums = 0
    /\ remoteArtists = {}
    /\ remoteNoDetail = {}
    /\ InitReconcileVars
    /\ search_items = << >>
    /\ artist_name = << >>
    /\ aliases = << >>
    /\ artist_id = << >>
    /\ target_artist_id = << >>
    /\ InitResetVars
    /\ InitMatchVars
    /\ InitMutateVars
    /\ remoteTotal = 0
    /\ remoteSkipped = {}
    /\ remotePlaylists \in FindLists
    /\ playlistIds = {}
    /\ playlistNames = {}
    /\ non_interactive = FALSE
    /\ cache = [k \in PlaylistIds |-> NoEntry]
    /\ invalidated = {}
    /\ processed_track_sets = [k \in PlaylistIds |-> NoEntry]
    /\ track_retrieval_lock = NoThread
    /\ playlists_cache = Entry([i \in 1..Len(remotePlaylists) |-> i])
    /\ expired = {}
    /\ playlist_tracks_cache = [n \in PlaylistNames |-> NoEntry]
    /\ op = [t \in Callers |-> "none"]
    /\ playlist_name = [t \in Callers |-> << >>]
    /\ playlists = [t \in Callers |-> << >>]
    /\ pc = [t \in Callers |-> "done"]
    /\ playlist_id = [t \in Callers |-> "p1"]
    /\ refresh = [t \in Callers |-> FALSE]
    /\ total = [t \in Callers |-> NoTotal]
    /\ tracklist = [t \in Callers |-> << >>]
    /\ futures = [t \in Callers |-> NoFutures]
    /\ collected = [t \in Callers |-> {}]
    /\ result = [t \in Callers |-> Returned(<< >>)]
    /\ listCalls = [t \in Callers |-> NoCalls]
    /\ fetchCount = 0
    /\ entryAtCall = [t \in Callers |-> NoEntry]
    /\ entryAtFetch = [t \in Callers |-> NoEntry]
    /\ raised = [t \in Callers |-> FALSE]
    /\ afterReturn = [t \in Callers |-> FALSE]
    /\ afterInvalidate = [t \in Callers |-> FALSE]
    /\ clean = TRUE
    /\ query_name \in FindNames
    /\ matched_playlist = << >>
    /\ mutation_playlist_id = << >>

findFrame ==
    UNCHANGED << searchVars, resetVars, mutateVars, matchVars, reconcileVars,
                 clientVars, remoteVars, legacyVars, playlistNames, pc,
                 refresh, total, tracklist, futures, collected, result,
                 listCalls, entryAtCall, raised, query_name >>

\* lines 163-210, 219-221: get_playlist_tracks, and with it
\* find_missing_and_extra_tracks, calls find_playlist_by_name, which takes
\* the best match among the cached playlists
call_find_playlist_by_name ==
    /\ matched_playlist = << >>
    /\ matched_playlist' =
          << find_playlist_by_name(playlists_cache.val, query_name) >>
    /\ UNCHANGED mutation_playlist_id
    /\ findFrame

\* lines 989-1000, 856-867, 812-823: add_tracks_to_playlist,
\* remove_tracks_from_playlist and remove_track_from_playlist take the
\* playlist_id of the first cached playlist of that name in lower case
get_playlist_id ==
    /\ mutation_playlist_id = << >>
    /\ mutation_playlist_id' = << PlaylistIdOf(query_name) >>
    /\ UNCHANGED matched_playlist
    /\ findFrame

NextFind ==
    \/ call_find_playlist_by_name
    \/ get_playlist_id

SpecFind == InitFind /\ [][NextFind]_vars

(* ------------------------ claims on gettracks -------------------------- *)

\* the collection of a playlist: every item that has a track with an id
CompleteCollection == PageItems(0, remoteTotal)

\* thread t's call has returned after making remote calls
Fetched(t) == pc[t] = "done" /\ listCalls[t][0] > 0

\* number of List calls of thread t's call
RECURSIVE SumCalls(_, _)
SumCalls(t, S) ==
    IF S = {} THEN 0
    ELSE LET o == CHOOSE x \in S : TRUE IN listCalls[t][o] + SumCalls(t, S \ {o})

Range(s) == { s[i] : i \in 1..Len(s) }

\* C1: when all callers ask concurrently for the same key, with nothing cached,
\* no forced refresh and every response delivered, the remote fetch runs
\* exactly once and all callers get the same collection (empty or not).
C1_FetchedOnce ==
    ( /\ \A t \in Callers : /\ pc[t] = "done"
                            /\ ~refresh[t]
                            /\ ~afterReturn[t]
                            /\ ~entryAtCall[t].present
      /\ clean )
    => /\ fetchCount = 1
       /\ \A t, u \in Callers : result[t] = result[u]

\* C3: every cache entry holds the complete collection of its key.
C3_CacheComplete ==
    \A k \in PlaylistIds : cache[k].present => cache[k].val = CompleteCollection

\* C4: the step that ends a call whose fetch raised hands the exception to the
\* caller and leaves the cache as it was when the fetch began.
C4_FailureReported ==
    [][ \A t \in Callers :
          (pc[t] # "done" /\ pc'[t] = "done" /\ raised'[t])
          => /\ result'[t] = Raised
             /\ cache' = cache
             /\ cache[playlist_id[t]] = entryAtFetch[t] ]_vars

\* C4 witness: a forced refresh failed on a later page while an entry was cached
C4_Witness ==
    \E t \in Callers :
        /\ pc[t] = "done" /\ raised[t] /\ result[t] = Raised
        /\ refresh[t] /\ total[t] > chunk_size
        /\ cache[playlist_id[t]].present

\* C5: a call without forced refresh that finds an entry returns the stored
\* collection and makes no remote call, whatever the stored collection is.
C5_HitNoRemote ==
    \A t \in Callers :
        (pc[t] = "done" /\ ~refresh[t] /\ entryAtCall[t].present)
        => /\ result[t] = Returned(entryAtCall[t].val)
           /\ listCalls[t] = NoCalls

\* C6: a call one of whose page fetches raised ends with an error, never with
\* a collection.
C6_PageFailureFails ==
    \A t \in Callers : (pc[t] = "done" /\ raised[t]) => result[t].error

\* C6 witness: a later page raised after the first page had delivered tracks
C6_Witness ==
    \E t \in Callers :
        /\ pc[t] = "done" /\ raised[t] /\ result[t].error
        /\ tracklist[t] # << >>
        /\ \E o \in DOMAIN futures[t] : futures[t][o] = "raise"

\* each offset below total is called once, no other offset is called
CallsPerOffset(t) ==
    /\ \A o \in PageOffsets : listCalls[t][o] = (IF o < total[t] THEN 1 ELSE 0)
    /\ SumCalls(t, PageOffsets) = num_chunks(total[t])

Delivered(t) ==
    { i \in 0..(total[t] - 1) :
        /\ i \notin remoteSkipped
        /\ (i < chunk_size \/ futures[t][i - (i % chunk_size)] = "ok") }

C10_EmptyTotal ==
    \A t \in Callers :
        (pc[t] = "done" /\ total[t] = 0)
        => /\ result[t] = Returned(<< >>)
           /\ listCalls[t][0] = 1
           /\ SumCalls(t, PageOffsets) = 1

\* C10 witness: a call returned after a first page with total = 0
C10_Witness ==
    \E t \in Callers :
        pc[t] = "done" /\ total[t] = 0 /\ listCalls[t][0] = 1 /\ ~result[t].error

\* C11: no task outlives its call: once a call has returned, with a result or
\* with an error, every page task it handed to its pool has finished.
C11_NoTaskOutlivesCall ==
    \A t \in Callers :
        pc[t] = "done" => \A o \in DOMAIN futures[t] : futures[t][o] \in Outcomes

\* C11 witness: a call failed on one page and returned after a page task
\* whose result it never collected had finished
C11_Witness ==
    \E t \in Callers :
        /\ pc[t] = "done" /\ result[t].error
        /\ \E o \in DOMAIN futures[t] \ collected[t] : futures[t][o] \in Outcomes

(* ------------------ claims on SpotifyPlaylistUpdater -------------------- *)

\* the cache key thread t is fetching from the remote, << >> when it is not
FetchingKey(t) ==
    IF pc[t] \in {"first", "pool", "shutdown"}
      THEN << "tracks_", playlist_id[t] >>
    ELSE IF pc[t] \in {"playlists_first", "playlists_pool", "playlists_shutdown"}
      THEN << "_playlists_cache" >>
    ELSE IF pc[t] \in {"tracks_first", "tracks_pool", "tracks_shutdown"}
      THEN << "_playlist_tracks_cache", playlist_name[t], 0 >>
    ELSE << >>

\* C2: for any cache key, no two remote fetches for that key execute at the
\* same time: two different callers are never both between the first List
\* call and the return of a fetch for the same key.
C2_OneFetchPerKey ==
    \A t1, t2 \in Callers :
        (t1 # t2 /\ FetchingKey(t1) # << >>) => FetchingKey(t1) # FetchingKey(t2)

IsAscending(s) == \A i \in 1..(Len(s) - 1) : s[i] < s[i + 1]

\* C9: the playlist tracks a fetch returns are in ascending playlist
\* position, whatever the order in which the page fetches completed.
C9_AscendingPosition ==
    \A t \in Callers :
        ( /\ pc[t] = "done"
          /\ op[t] \in {"gettracks", "get_playlist_tracks"}
          /\ ~result[t].error )
        => IsAscending(result[t].val)


(* ------------- claims on find_missing_and_extra_tracks ------------------ *)

\* C7: when a request of the discography fetch failed (the artist search, a
\* page of the album listing or an album-detail batch), the comparison
\* returns an error and no missing set.
C7_DiscographyFailureReported ==
    \A t \in Callers :
        ( /\ pc[t] = "done"
          /\ op[t] = "find_missing_and_extra_tracks"
          /\ raised[t] )
        => result[t].error

\* thread t has called find_missing_and_extra_tracks and it has returned a
\* comparison
Compared(t) ==
    /\ pc[t] = "done"
    /\ op[t] = "find_missing_and_extra_tracks"
    /\ ~result[t].error

\* the artist track of album a matches no track of the playlist list pls
MatchesNone(a, pls) ==
    \A i \in 1..Len(pls) : ~is_track_match(AlbumTrack(a), PlaylistTrack(pls[i]))

\* C12: of the discography and the playlist the comparison fetched, every
\* returned missing track is a discography track that matches no playlist
\* track, and every discography track that matches no playlist track is in
\* the missing set or matches a track of it.
C12_MissingSet ==
    \A t \in Callers :
        Compared(t) =>
            LET missing == Range(result[t].val.missing)
                disco == Range(discography[t])
            IN  /\ \A m \in missing :
                      m \in disco /\ MatchesNone(m, playlist_tracks[t])
                /\ \A d \in disco :
                      MatchesNone(d, playlist_tracks[t])
                      => \/ d \in missing
                         \/ \E m \in missing :
                               is_track_match(AlbumTrack(d), AlbumTrack(m))

\* the comparison of thread t resolved an alias for the extra tracks and
\* every batch lookup of it succeeded
ExtraComputed(t) ==
    /\ Compared(t)
    /\ target_artist_ids[t] # {}
    /\ \A i \in DOMAIN futures[t] : futures[t][i] = "ok"

\* the artist ids of the looked-up detail of the track at position p; a
\* track the remote has no detail of has none
DetailArtists(p) == IF p \in remoteNoDetail THEN {} ELSE TrackArtists(p)

\* every position has at most one entry in s
NoDuplicates(s) == \A i, j \in 1..Len(s) : s[i] = s[j] => i = j

\* C13 as stated: with an alias resolved and every batch lookup succeeding, a
\* playlist track is in the extra set iff none of the artist ids of its
\* looked-up detail is a target id; each position has at most one entry.
C13_ExtraSet ==
    \A t \in Callers :
        ExtraComputed(t) =>
            LET extra == result[t].val.extra
            IN  /\ NoDuplicates(extra)
                /\ \A p \in Range(playlist_tracks[t]) :
                      p \in Range(extra)
                      <=> DetailArtists(p) \cap target_artist_ids[t] = {}
                /\ Range(extra) \subseteq Range(playlist_tracks[t])

\* C13 amended: with an alias resolved and every batch lookup succeeding, a
\* playlist track is in the extra set iff the lookup delivered a detail of it
\* and none of the artist ids of that detail is a target id; each position
\* has at most one entry, which is the playlist track of that position.
C13_ExtraSetOfDetails ==
    \A t \in Callers :
        ExtraComputed(t) =>
            LET extra == result[t].val.extra
            IN  /\ NoDuplicates(extra)
                /\ \A p \in Range(playlist_tracks[t]) :
                      p \in Range(extra)
                      <=> /\ p \notin remoteNoDetail
                          /\ TrackArtists(p) \cap target_artist_ids[t] = {}
                /\ Range(extra) \subseteq Range(playlist_tracks[t])

\* C13 witness: a comparison over several track batches returned some
\* playlist tracks as extra and left out a track of the artist and a track
\* without detail
C13_Witness ==
    \E t \in Callers :
        /\ ExtraComputed(t)
        /\ Cardinality(DOMAIN futures[t]) > 1
        /\ result[t].val.extra # << >>
        /\ \E p \in Range(playlist_tracks[t]) \ Range(result[t].val.extra) :
              p \in remoteNoDetail
        /\ \E p \in Range(playlist_tracks[t]) \ Range(result[t].val.extra) :
              p \notin remoteNoDetail

\* a batch lookup of the extra tracks of thread t failed
TrackBatchFailed(t) ==
    /\ pc[t] = "done"
    /\ op[t] = "find_missing_and_extra_tracks"
    /\ "tracks" \in lookups[t]
    /\ \E i \in DOMAIN futures[t] : futures[t][i] = "raise"

\* the list indices of the track batch at index i
BatchIndices(t, i) ==
    { k \in 1..Len(playlist_tracks[t]) : i < k /\ k <= i + batch_size }

\* the playlist tracks at the list indices K that have a detail by none of
\* the targets
ExtraAmong(t, K) ==
    { playlist_tracks[t][k] : k \in
        { j \in K : /\ playlist_tracks[t][j] \notin remoteNoDetail
                     /\ TrackArtists(playlist_tracks[t][j])
                            \cap target_artist_ids[t] = {} } }

\* the extra tracks of the batches of thread t whose lookup ended with out
ExtraOfBatches(t, out) ==
    UNION { ExtraAmong(t, BatchIndices(t, i)) :
              i \in { b \in DOMAIN futures[t] : futures[t][b] = out } }

Encountered(t) ==
    SelectSeq(artist_tracks[t], LAMBDA a : MatchesNone(a, playlist_tracks[t]))

\* K holds the indices of m that match no earlier index of K
FirstSeen(m, K) ==
    \A i \in 1..Len(m) :
        i \in K <=> ~ \E j \in K :
                        j < i /\ is_track_match(AlbumTrack(m[j]), AlbumTrack(m[i]))

\* C15: the returned missing set holds exactly the tracks that, in
\* encounter order, match no track kept before them: no two returned tracks
\* match, and of matching tracks the one encountered first is returned.
C15_GreedyFirstSeen ==
    \A t \in Callers :
        Compared(t) /\ artist_tracks[t] # << >> =>
            LET m == Encountered(t)
                missing == result[t].val.missing
            IN  /\ \E K \in SUBSET (1..Len(m)) :
                      /\ FirstSeen(m, K)
                      /\ Range(missing) = { m[i] : i \in K }
                /\ \A i, j \in 1..Len(missing) :
                      i # j => ~is_track_match(AlbumTrack(missing[i]),
                                               AlbumTrack(missing[j]))

\* C15 witness: a comparison returned a missing track and dropped an
\* encountered track that matches it
C15_Witness ==
    \E t \in Callers :
        /\ Compared(t)
        /\ \E i, j \in 1..Len(Encountered(t)) :
              /\ i < j
              /\ Encountered(t)[i] \in Range(result[t].val.missing)
              /\ Encountered(t)[j] \notin Range(result[t].val.missing)
              /\ is_track_match(AlbumTrack(Encountered(t)[i]),
                                AlbumTrack(Encountered(t)[j]))

\* the comparison of thread t fetched a playlist with tracks and ended, and
\* no request of it failed
EndedUnfailed(t) ==
    /\ pc[t] = "done"
    /\ op[t] = "find_missing_and_extra_tracks"
    /\ playlist_tracks[t] # << >>
    /\ ~raised[t]

\* the aliases of thread t that resolve to an artist
Resolved(t) == Range(artist_names[t]) \cap remoteArtists

\* the tracks of the discographies of the aliases of thread t that resolve
ResolvedDiscography(t) == UNION { Range(AlbumsOf(n)) : n \in Resolved(t) }

\* C16: when no request fails, an alias that does not resolve raises no
\* error; the discography the comparison uses is the union of the
\* discographies of the aliases that resolved, and every returned missing
\* track is a track of it that matches no playlist track.
C16_ResolvedAliasesOnly ==
    \A t \in Callers :
        EndedUnfailed(t) =>
            /\ ~result[t].error
            /\ Range(discography[t]) = ResolvedDiscography(t)
            /\ Range(artist_tracks[t]) \subseteq ResolvedDiscography(t)
            /\ \A m \in Range(result[t].val.missing) :
                  m \in ResolvedDiscography(t) /\ MatchesNone(m, playlist_tracks[t])
            /\ ResolvedDiscography(t) # {} => target_artist_ids[t] = Resolved(t)

\* C16 witness: of two aliases the first does not resolve and the second
\* does, and a track of the second is returned as missing
C16_Witness ==
    \E t \in Callers :
        /\ EndedUnfailed(t)
        /\ Len(artist_names[t]) = 2
        /\ artist_names[t][1] \notin remoteArtists
        /\ artist_names[t][2] \in remoteArtists
        /\ result[t].val.missing # << >>

\* C17: when no alias of the artist string resolves to an artist and no
\* request fails, the comparison ends without error with an empty missing
\* set and an empty extra set, having fetched no album and no track detail.
C17_NoAliasResolves ==
    \A t \in Callers :
        EndedUnfailed(t) /\ Resolved(t) = {} =>
            /\ result[t] = Comparison(<< >>, << >>)
            /\ lookups[t] \subseteq {"search"}

\* C17 witness: a comparison of a playlist with tracks ended after the
\* search of each of two aliases found no artist
C17_Witness ==
    \E t \in Callers :
        /\ EndedUnfailed(t)
        /\ Resolved(t) = {}
        /\ Len(artist_names[t]) = 2
        /\ "search" \in lookups[t]

\* the playlist thread t names is among the playlists of the user
PlaylistExists(t) ==
    find_playlist_by_name([i \in 1..Len(remotePlaylists) |-> i],
                          playlist_name[t]) # 0

\* the comparison of thread t ended with a playlist that was not found or
\* holds no track, and no request of it failed
EndedWithoutPlaylist(t) ==
    /\ pc[t] = "done"
    /\ op[t] = "find_missing_and_extra_tracks"
    /\ ~raised[t]
    /\ \/ ~PlaylistExists(t)
       \/ playlist_tracks[t] = << >>

\* C18: when the named playlist is not found or has no tracks, the
\* comparison returns an empty missing set and an empty extra set, and it has
\* searched no artist and fetched no album, track or track detail.
C18_NoPlaylistShortCircuit ==
    \A t \in Callers :
        EndedWithoutPlaylist(t) =>
            /\ result[t] = Comparison(<< >>, << >>)
            /\ lookups[t] = {}
            /\ discography[t] = << >>

\* C18 witness: a comparison ended for a playlist that is found and yields
\* no track, while every alias has an artist with albums
C18_Witness ==
    \E t \in Callers :
        /\ EndedWithoutPlaylist(t)
        /\ PlaylistExists(t)
        /\ Range(artist_names[t]) \subseteq remoteArtists
        /\ remoteAlbums > 0

(* ------------------------ claims on track_utils -------------------------- *)

\* the name of remote track i, normalized and in lower case
NormalizedName(i) == Lower(clean_name(raw_tracks[i].name))

\* the duration of remote track i in whole seconds
WholeSeconds(i) == raw_tracks[i].duration_ms \div 1000

\* C19: is_track_match of the track dicts of two remote tracks is true
\* exactly when their normalized names are equal ignoring case and their
\* durations in whole seconds differ by at most 5, whatever their albums and
\* artists are.
C19_MatchesIff ==
    \A p \in DOMAIN matched :
        matched[p] <=>
            /\ NormalizedName(p[1]) = NormalizedName(p[2])
            /\ WholeSeconds(p[1]) - WholeSeconds(p[2]) <= 5
            /\ WholeSeconds(p[2]) - WholeSeconds(p[1]) <= 5

\* C19 witness: two tracks of different albums and artists, whose names are
\* written differently and whose durations lie more than 5000 ms and exactly
\* 5 whole seconds apart across the full minute, were found to match
C19_Witness ==
    /\ << 1, 2 >> \in DOMAIN matched
    /\ matched[<< 1, 2 >>]
    /\ raw_tracks[1].name # raw_tracks[2].name
    /\ Lower(raw_tracks[1].name) # Lower(raw_tracks[2].name)
    /\ raw_tracks[1].album # raw_tracks[2].album
    /\ raw_tracks[1].artists # raw_tracks[2].artists
    /\ WholeSeconds(1) = 59
    /\ WholeSeconds(2) = 64
    /\ raw_tracks[2].duration_ms - raw_tracks[1].duration_ms > 5000

\* C20: is_track_match(a, b) and is_track_match(b, a) return the same.
C20_Symmetric ==
    { << 1, 2 >>, << 2, 1 >> } \subseteq DOMAIN matched =>
        matched[<< 1, 2 >>] = matched[<< 2, 1 >>]

\* C20 witness: two tracks of equal normalized names whose durations lie 6
\* whole seconds apart were compared in both orders
C20_Witness ==
    /\ { << 1, 2 >>, << 2, 1 >> } \subseteq DOMAIN matched
    /\ NormalizedName(1) = NormalizedName(2)
    /\ WholeSeconds(2) - WholeSeconds(1) = 6
    /\ ~matched[<< 1, 2 >>]

\* C21: is_track_match of a track dict with itself is true, for every name
\* and every duration format_duration makes of milliseconds.
C21_Reflexive ==
    \A p \in DOMAIN matched : p[1] = p[2] => matched[p]

\* C21 witness: a track whose normalized name holds capitals and whose
\* duration lies beyond the full minute, within a second, was compared with
\* itself
C21_Witness ==
    /\ << 2, 2 >> \in DOMAIN matched
    /\ clean_name(raw_tracks[2].name) # NormalizedName(2)
    /\ raw_tracks[2].duration_ms > 60000
    /\ raw_tracks[2].duration_ms % 1000 # 0

\* C22: what clean_name returns for a string is a string clean_name leaves
\* as it is, brackets nested or unbalanced included.
C22_Idempotent ==
    cleaned.called /\ ~cleaned.error =>
        clean_name(cleaned.val) = cleaned.val

Succeeded(t) == pc[t] = "done" /\ mutation_ok = "True"
Failed(t) == pc[t] = "done" /\ mutation_ok = "False"

\* the list items after the mutation of thread t with the URIs uris
Mutated(t, items, uris) ==
    IF op[t] \in Removals THEN Without(items, uris) ELSE items \o uris

\* C24: after an addition or a removal that returned True on a playlist whose
\* tracks were cached under the name of the call, the cached entry is the
\* entry of before the call without the tracks of the removed URIs, the
\* others in their order, or with the added tracks appended.
C24_CacheReflectsMutation ==
    \A t \in Callers :
        Succeeded(t) /\ entryAtCall[t].present =>
            playlist_tracks_cache[playlist_name[t]] =
                Entry(Mutated(t, entryAtCall[t].val, track_uris))

\* the URIs of the batches the remote has applied
Applied == SubSeq(track_uris, 1, Min(batch_start, Len(track_uris)))

\* C25: when a batch fails after earlier batches of the call succeeded, the
\* call returns False, the remote playlist keeps the batches applied, and
\* the cached entry reflects exactly the batches applied.
C25_PartialProgressCached ==
    \A t \in Callers :
        pc[t] = "done" /\ op[t] # "none" /\ batch_start > 0
        /\ batch_start < Len(track_uris) =>
            /\ mutation_ok = "False"
            /\ remote_items = Mutated(t, RemoteItems(remoteTotal), Applied)
            /\ entryAtCall[t].present =>
                 playlist_tracks_cache[playlist_name[t]] =
                     Entry(Mutated(t, entryAtCall[t].val, Applied))

\* the batches sent so far, one after the other
RECURSIVE Joined(_)
Joined(batches) ==
    IF batches = << >> THEN << >>
    ELSE Head(batches) \o Joined(Tail(batches))

\* the batch requests of a lookup of n ids partition the ids in order
LookupPartition(n) ==
    LET ids == [k \in 1..n |-> k]
    IN  /\ \A i \in BatchStarts(n) :
               /\ Len(Batch(ids, i)) >= 1
               /\ Len(Batch(ids, i)) <= batch_size
               /\ Batch(ids, i) = [k \in 1..Len(Batch(ids, i)) |-> i + k]
        /\ \A k \in 1..n :
               Cardinality({ i \in BatchStarts(n) :
                               k \in Range(Batch(ids, i)) }) = 1

\* C26: every batch sent to the remote has at least one item and at most the
\* limit of its endpoint, and the batches of one operation are its input in
\* order, each input in one batch: the batches sent so far are a prefix of
\* the input, all of it when the call returned True.
C26_BatchesPartition ==
    /\ \A k \in 1..Len(sent) :
           Len(sent[k]) >= 1 /\ Len(sent[k]) <= mutate_batch_size
    /\ Len(Joined(sent)) <= Len(track_uris)
    /\ Joined(sent) = SubSeq(track_uris, 1, Len(Joined(sent)))
    /\ \A t \in Callers : Succeeded(t) => Joined(sent) = track_uris
    /\ \A n \in 0..MaxTotal : LookupPartition(n)

\* C26 witness: a call that returned True sent several batches, the last one
\* shorter than the limit
C26_Witness ==
    /\ \E t \in Callers : Succeeded(t)
    /\ Len(sent) >= 2
    /\ Len(sent[Len(sent)]) < mutate_batch_size

(* ------------------------ claims on invalidation ------------------------- *)

\* the step ends the call of thread t without an exception
ReturnsValue(t) == pc[t] # "done" /\ pc'[t] = "done" /\ ~result'[t].error

\* C27: after invalidate_cache(key) the cache has no entry for the key, and a
\* call of gettracks for the key that begins after it, before the key is
\* stored again, makes a List request and does not return the value held
\* before the invalidation, in non-interactive runs with their record of
\* fetched playlists as in interactive ones.
C27_InvalidateForcesFetch ==
    [][ /\ \A k \in invalidated' : ~cache'[k].present
        /\ \A t \in Callers :
              (ReturnsValue(t) /\ afterInvalidate'[t]
               /\ playlist_id'[t] \in invalidated)
              => listCalls'[t] # NoCalls ]_vars

\* C27 restricted to interactive runs
C27_InteractiveOnly ==
    [][ ~non_interactive =>
        /\ \A k \in invalidated' : ~cache'[k].present
        /\ \A t \in Callers :
              (ReturnsValue(t) /\ afterInvalidate'[t]
               /\ playlist_id'[t] \in invalidated)
              => listCalls'[t] # NoCalls ]_vars

(* ------------------------ claims on the TTL ------------------------------ *)

\* the key of the cache entry the call of thread t looks at
CacheKey(t) ==
    IF op[t] = "get_user_playlists" THEN PlaylistsKey ELSE playlist_name[t]

\* C28: a call never returns an entry stored more than 24 hours earlier: a
\* call of get_user_playlists or get_playlist_tracks that ends without an
\* exception while the entry of its key is older than 24 hours has made a
\* List request.
C28_NoEntryOlderThanTTL ==
    [][ \A t \in Callers :
          (ReturnsValue(t) /\ CacheKey(t)' \in expired)
          => listCalls'[t] # NoCalls ]_vars

(* ------------------------ claims on the frame of Reconcile --------------- *)

\* no step sends a batch to the add or the remove endpoint
NoMutationCall == sent' = sent /\ remote_items' = remote_items

\* C29 as stated: find_missing_and_extra_tracks makes no add or remove call
\* and the two caches of the client hold at its return what they held at its
\* call: no step of the call changes them.
C29_CacheUntouched ==
    [][ /\ NoMutationCall
        /\ playlists_cache' = playlists_cache
        /\ playlist_tracks_cache' = playlist_tracks_cache ]_vars

\* C29 amended: find_missing_and_extra_tracks makes no add or remove call,
\* and no step of it changes or removes an entry the caches hold; the
\* entries it adds are the list of playlists and the tracks of the playlist
\* it was called with.
C29_EntriesKept ==
    [][ /\ NoMutationCall
        /\ playlists_cache.present => playlists_cache' = playlists_cache
        /\ \A n \in PlaylistNames :
              /\ playlist_tracks_cache[n].present
                   => playlist_tracks_cache'[n] = playlist_tracks_cache[n]
              /\ playlist_tracks_cache'[n] # playlist_tracks_cache[n]
                   => \E t \in Callers :
                         /\ op[t] = "find_missing_and_extra_tracks"
                         /\ playlist_name[t] = n ]_vars

\* C29 witness: a comparison has returned both sets; it found the playlists
\* cached, fetched the tracks of the playlist, and left them in the cache
C29_Witness ==
    \E t \in Callers :
        /\ pc[t] = "done"
        /\ op[t] = "find_missing_and_extra_tracks"
        /\ ~result[t].error
        /\ listCalls[t] # NoCalls
        /\ ~entryAtCall[t].present
        /\ playlist_tracks_cache[playlist_name[t]].present
        /\ playlist_tracks_cache[playlist_name[t]].val # << >>
        /\ playlists_cache = Entry(<< 1 >>)

\* C29 second case: a comparison has returned both sets with the tracks of
\* the playlist taken from the cache
C29_WarmReached ==
    \E t \in Callers :
        /\ pc[t] = "done"
        /\ op[t] = "find_missing_and_extra_tracks"
        /\ entryAtCall[t].present
        /\ entryAtCall[t].val # << >>
        /\ remoteAlbums > 0

(* ------------------------ claims on the order of the missing set --------- *)

\* the first index of x in the list s
IndexOf(s, x) == Least({ i \in 1..Len(s) : s[i] = x })

\* C30: the returned missing set is in ascending order of release date, and
\* of two returned tracks of the same release date the one encountered
\* first in the discography comes first.
C30_SortedByReleaseDate ==
    \A t \in Callers :
        Compared(t) =>
            LET missing == result[t].val.missing
            IN  \A i, j \in 1..Len(missing) :
                    i < j =>
                        /\ AlbumTrack(missing[i]).release_date
                             <= AlbumTrack(missing[j]).release_date
                        /\ AlbumTrack(missing[i]).release_date
                             = AlbumTrack(missing[j]).release_date
                           => IndexOf(Encountered(t), missing[i])
                                < IndexOf(Encountered(t), missing[j])

\* C30 witness: the returned missing set holds two tracks of the same
\* release date, the later album first as it was encountered first
C30_Witness ==
    \E t \in Callers :
        /\ Compared(t)
        /\ \E i, j \in 1..Len(result[t].val.missing) :
              /\ i < j
              /\ result[t].val.missing[i] > result[t].val.missing[j]
              /\ AlbumTrack(result[t].val.missing[i]).release_date
                   = AlbumTrack(result[t].val.missing[j]).release_date

\* C30 second case: the returned missing set is not in the order of the
\* encounter, a track of an earlier release date was encountered later
C30_Reordered ==
    \E t \in Callers :
        /\ Compared(t)
        /\ result[t].val.missing # unique_missing[t]

(* ------------------------ claims on waiting ------------------------------ *)

\* the call of thread t has begun and has not returned
InCall(t) == pc[t] \notin {"idle", "done"}

\* the thread that holds track_retrieval_lock is in its fetch
LockHeldByFetcher ==
    track_retrieval_lock # NoThread =>
        pc[track_retrieval_lock] \in {"first", "pool", "shutdown"}

\* C31: every call of gettracks returns a collection or an error when every
\* List call returns: a caller that waits for track_retrieval_lock goes on
\* once the fetch of the holder has ended, with a result or an exception,
\* and the lock is held by a thread in its fetch only, never after a return.
C31_EveryCallReturns ==
    /\ [] LockHeldByFetcher
    /\ \A t \in Callers : InCall(t) ~> (pc[t] = "done")

\* C31 witness: a caller got the lock and fetched after the fetch of another
\* caller, for which it had to wait, ended with an exception
C31_Witness ==
    \E t, u \in Callers :
        /\ t # u
        /\ pc[u] = "done" /\ raised[u]
        /\ pc[t] = "done" /\ ~afterReturn[t]
        /\ listCalls[t] # NoCalls

\* C32: a caller is made to wait only while a fetch of its own key is in
\* flight: when a thread waits for track_retrieval_lock, the thread that
\* holds it fetches the same playlist.
C32_WaitsForSameKeyOnly ==
    \A t \in Callers :
        (pc[t] \in {"session", "lock"} /\ track_retrieval_lock # NoThread)
        => playlist_id[track_retrieval_lock] = playlist_id[t]

(* ------------------- claims on the order of a comparison ----------------- *)

\* the thread is in a call of find_missing_and_extra_tracks
Reconciling(t) == op[t] = "find_missing_and_extra_tracks"

\* the positions at which the playlist is read
FetchingPlaylist == {"find", "playlists_first", "playlists_pool",
                     "playlists_shutdown", "tracks_first", "tracks_pool",
                     "tracks_shutdown", "compare"}

\* the positions at which the albums of an artist are listed and looked up
FetchingDiscography == {"artist_albums", "album_batches"}

\* the place of a position in the stated order: the artists are resolved,
\* then the discography and the playlist are fetched, then the extra tracks
\* are settled
StatedRank(l) ==
    CASE l = "idle" -> 0
      [] l = "artist_search" -> 1
      [] l \in FetchingDiscography \cup FetchingPlaylist -> 2
      [] l = "extra_search" -> 4
      [] l = "track_batches" -> 5
      [] OTHER -> 6

\* the place of a position in the order of find_missing_and_extra_tracks:
\* the playlist, then alias by alias the artist and its albums, then the
\* extra tracks
PhaseRank(l) ==
    CASE l = "idle" -> 0
      [] l \in FetchingPlaylist -> 1
      [] l \in FetchingDiscography \cup {"artist_search"} -> 2
      [] l = "extra_search" -> 4
      [] l = "track_batches" -> 5
      [] OTHER -> 6

\* the missing tracks can be computed: the tracks of the playlist are cached
\* and held, the last alias is at hand and none of its album batches is
\* pending
MatchReady(t) ==
    /\ pc[t] \in FetchingDiscography \cup {"artist_search"}
    /\ artist_index[t] = Len(artist_names[t])
    /\ pc[t] = "album_batches" =>
          \A i \in DOMAIN futures[t] : futures[t][i] # "pending"
    /\ playlist_tracks_cache[playlist_name[t]] # NoEntry
    /\ playlist_tracks[t] = playlist_tracks_cache[playlist_name[t]].val
    /\ playlist_tracks[t] # << >>

\* C33 (as stated): every comparison passes its states in the order
\* ResolvingArtists, then FetchingDiscography and FetchingPlaylist, then
\* MatchingMissing, ResolvingExtraArtistIdentity, BatchCheckingExtra and Done,
\* and never goes back to an earlier state.
C33_StatedOrder ==
    [][\A t \in Callers :
          Reconciling(t) => StatedRank(pc'[t]) >= StatedRank(pc[t])]_vars

\* C33 (amended): every comparison fetches the playlist first, then resolves
\* the artist and fetches the albums alias by alias, then computes the missing
\* tracks, resolves the artists for the extra tracks, checks the track batches
\* and is done, and never goes back to an earlier phase; the next alias is
\* taken only when the albums of the one before are complete; the missing
\* tracks are computed only after the playlist and the albums of every alias
\* are fetched; the track batches start only after the last alias is searched;
\* a playlist without tracks ends the comparison at once with empty lists.
C33_PhaseOrder ==
    [][\A t \in Callers :
          Reconciling(t) =>
            /\ PhaseRank(pc'[t]) >= PhaseRank(pc[t])
            /\ (pc[t] # "artist_search" /\ pc'[t] = "artist_search") =>
                  \/ pc[t] = "compare" /\ result[t].val # << >>
                  \/ /\ pc[t] \in FetchingDiscography
                     /\ artist_index'[t] = artist_index[t] + 1
                     /\ pc[t] = "album_batches" =>
                           \A i \in DOMAIN futures[t] : futures[t][i] # "pending"
            /\ (pc[t] # "extra_search" /\ pc'[t] = "extra_search") =>
                  /\ MatchReady(t)
                  /\ unique_missing'[t] =
                        Unique(missing_tracks(artist_tracks'[t], playlist_tracks[t]))
            /\ (pc[t] # "track_batches" /\ pc'[t] = "track_batches") =>
                  /\ pc[t] = "extra_search"
                  /\ artist_index[t] = Len(artist_names[t])
            /\ (pc[t] = "compare" /\ result[t].val = << >>) =>
                  /\ pc'[t] = "done"
                  /\ result'[t] = Comparison(<< >>, << >>)
                  /\ lookups'[t] = {}]_vars

\* C33 witness: a comparison of two aliases went through every phase and
\* ended with a result
C33_Witness ==
    \E t \in Callers :
        /\ Reconciling(t)
        /\ pc[t] = "done"
        /\ ~raised[t]
        /\ Len(artist_names[t]) = 2
        /\ {"search", "artist_albums", "albums", "tracks"} \subseteq lookups[t]
        /\ unique_missing[t] # << >>

(* -------------------------- claims on the pools -------------------------- *)

\* the positions at which the tasks of a pool list pages
ListingPools == {"pool", "shutdown"} \cup ClientPools \cup ClientShutdowns

\* the positions at which the tasks of a pool look up a batch of albums or
\* of tracks
BatchPools == {"album_batches", "track_batches"}

\* the sizes of the pools that list pages: gettracks, get_user_playlists,
\* get_playlist_tracks
ListingWorkers == {max_workers, client_max_workers}

\* C34: the tasks of a call that are running at the same time are never more
\* than the size of the pool of the call, and the pool of a call that looks
\* up album batches or track batches is strictly smaller than every pool that
\* lists playlists or playlist tracks.
C34_BatchPoolsSmaller ==
    \A t \in Callers :
        /\ pc[t] \in ListingPools => Cardinality(Running(t)) <= pool_workers(t)
        /\ pc[t] \in BatchPools =>
              \A w \in ListingWorkers : pool_workers(t) < w

(* ---------------------- claims on the artist search ---------------------- *)

\* the items whose name is the name, ignoring case
ExactItems(items, name) ==
    { i \in 1..Len(items) : Lower(items[i]) = Lower(name) }

\* id is the first item of the name in search order, or NoArtist when the
\* search returns no item of the name
FirstExact(items, name, id) ==
    IF ExactItems(items, name) = {}
      THEN id = NoArtist
      ELSE /\ id \in ExactItems(items, name)
           /\ \A j \in ExactItems(items, name) : id <= j

\* C35: for each alias the artist taken is the first item of the search whose
\* name is the trimmed alias, ignoring case; later items of that name and
\* items of other names are passed over, and an alias without such an item has
\* no artist; the search for the discography and the search for the extra
\* tracks take the same artist for the same alias.
C35_FirstExactMatch ==
    /\ \A k \in 1..Len(artist_id) :
          FirstExact(search_items, strip(split(artist_name)[k]), artist_id[k])
    /\ \A k \in 1..Len(target_artist_id) :
          /\ FirstExact(search_items, strip(split(artist_name)[k]),
                        target_artist_id[k])
          /\ target_artist_id[k] = artist_id[k]

\* C35 witness: two aliases were searched on both paths; one of them is
\* written with blanks around it and has two items of its name, the first of
\* which is taken
C35_Witness ==
    /\ Len(aliases) = 2
    /\ Len(target_artist_id) = 2
    /\ \E k \in 1..2 :
          /\ strip(split(artist_name)[k]) # split(artist_name)[k]
          /\ artist_id[k] # NoArtist
          /\ \E j \in ExactItems(search_items, aliases[k]) : j > target_artist_id[k]

(* --------------------- claims on the playlist of a name ------------------ *)

\* the name of the i-th cached playlist, in lower case
CachedName(i) == Lower(remotePlaylists[playlists_cache.val[i]])

\* the cached playlists of the name searched, ignoring case
ExactPlaylists ==
    { i \in 1..Len(playlists_cache.val) : CachedName(i) = Lower(query_name) }

\* the cached playlists whose name contains the name searched without being it
ContainingPlaylists ==
    { i \in 1..Len(playlists_cache.val) :
        /\ i \notin ExactPlaylists
        /\ Contains(CachedName(i), Lower(query_name)) }

\* the cached playlists whose name is a proper part of the name searched
ContainedPlaylists ==
    { i \in 1..Len(playlists_cache.val) :
        /\ i \notin ExactPlaylists \cup ContainingPlaylists
        /\ Contains(Lower(query_name), CachedName(i)) }

\* the first playlist of the set I in list order
FirstOf(I) == playlists_cache.val[Least(I)]

\* C36: find_playlist_by_name returns the first playlist of the name searched,
\* ignoring case, if there is one; else the first playlist whose name contains
\* the name searched; else the first playlist whose name is contained in the
\* name searched; and nothing when there is none of these.
C36_BestMatchFirst ==
    matched_playlist # << >> =>
        matched_playlist[1] =
            IF ExactPlaylists # {} THEN FirstOf(ExactPlaylists)
            ELSE IF ContainingPlaylists # {} THEN FirstOf(ContainingPlaylists)
            ELSE IF ContainedPlaylists # {} THEN FirstOf(ContainedPlaylists)
            ELSE 0

\* C36 witness: the playlist returned contains the name searched, a playlist
\* before it in the list is contained in the name searched, and a playlist
\* after it contains the name searched as well
C36_Witness ==
    /\ matched_playlist # << >>
    /\ matched_playlist[1] \in ContainingPlaylists
    /\ \E i \in ContainedPlaylists : i < matched_playlist[1]
    /\ \E i \in ContainingPlaylists : i > matched_playlist[1]

\* C37: for every name and every list of playlists, the playlist whose tracks
\* get_playlist_tracks and find_missing_and_extra_tracks read under that name
\* is the playlist add_tracks_to_playlist and remove_tracks_from_playlist
\* change, or neither finds a playlist.
C37_SamePlaylistReadAndMutated ==
    (matched_playlist # << >> /\ mutation_playlist_id # << >>)
        => matched_playlist = mutation_playlist_id

(* --------------------- claims on the record of the run ------------------- *)

\* the thread is in the part of gettracks that runs under
\* track_retrieval_lock and ends with the record of its result
Fetching(t) == track_retrieval_lock = t

\* C38: processed_track_sets is read, written and cleared under one and the
\* same lock: while reset_processed_tracking holds its lock to clear the
\* record, no thread is in the locked part of gettracks that reads the record
\* and, in non-interactive mode, writes it at the end of the fetch.
C38_RecordUnderOneLock ==
    (non_interactive /\ playlist_lock # NoThread)
        => \A t \in Callers : ~Fetching(t)

(* ----------------------- claims on forced refresh ------------------------ *)

\* the step ends a call of gettracks of thread t with forced refresh
RefreshEnds(t) == refresh[t] /\ pc[t] # "done" /\ pc'[t] = "done"

\* C39: a call of gettracks with forced refresh makes a remote fetch whatever
\* is cached or recorded for its key; when it ends with a collection, the
\* entry of the key is the complete collection it fetched and returns; when it
\* ends with an error, the cache is as it was, and no other step of a call
\* with forced refresh changes the cache.
C39_RefreshReplacesEntry ==
    [][\A t \in Callers :
          /\ RefreshEnds(t) =>
                /\ listCalls'[t][0] > 0
                /\ IF result'[t].error
                     THEN cache' = cache
                     ELSE /\ result'[t].val = CompleteCollection
                          /\ cache'[playlist_id[t]] = Entry(result'[t].val)
          /\ (refresh[t] /\ track_retrieval_lock = t /\ ~RefreshEnds(t)) =>
                cache' = cache]_vars

====
